---------------------------- MODULE Spec2Model ----------------------------
(***************************************************************************)
(* A model of the package download pipeline.                               *)
(*                                                                         *)
(*   Fetch_benign_packages/bengin_simply_download.py : PyPIDownloader, the *)
(*       thread-pool pass over a package list (download_all_packages,      *)
(*       download_package, the two resolution strategies, the index of     *)
(*       downloaded packages, statistics and the saved results);           *)
(*   Preprocess_packages/process_benign.py : retry_failed_downloads and    *)
(*       the sequential download it re-drives.                             *)
(*                                                                         *)
(* Strings are sequences of tokens.  A token is one character, except the  *)
(* words "tar", "gz", "zip", "whl", "egg" and "https:" which stand for     *)
(* their characters and occur in no package name.  Python's None is the    *)
(* value None below; the empty string is <<>>.                             *)
(***************************************************************************)
EXTENDS Integers, Sequences, FiniteSets, TLC

VARIABLES
    package_list,         \* the input of download_all_packages
    max_workers,          \* PyPIDownloader.max_workers
    registry,             \* what the registry answers for each name (environment)
    downloaded_packages,  \* PyPIDownloader.downloaded_packages
    files,                \* the artifact files of output_dir: path -> content
    worker,               \* one download_package call per submitted item
    results,              \* the list download_all_packages builds
    phase,                \* where main() is
    run,                  \* the number of the run on this output directory
    manifest,             \* download_results.json, as save_results wrote it
    failed_file,          \* failed_packages.txt
    progress,             \* the progress lines download_all_packages has logged
    probe_in,             \* the argument of the pure function under check
    probe_out,            \* its value
    packages,             \* process_benign.main: the package list read
    max_retries,          \* retry_failed_downloads: its max_retries
    download_dir,         \* process_benign: the files of download_dir
    successful,           \* main's successful list (successful_downloads)
    failed,               \* main's failed list (failed_downloads)
    all_retry_successful, \* retry_failed_downloads' local lists
    all_retry_failed,
    retry_successful,
    still_failed,
    retry,                \* the round, range(max_retries)
    cursor,               \* the position of the running for loop in its list
    rpc                   \* where process_benign.main is

probeVars == <<probe_in, probe_out>>

retryVars == <<packages, max_retries, download_dir, successful, failed,
               all_retry_successful, all_retry_failed, retry_successful, still_failed,
               retry, cursor, rpc>>

passVars == <<package_list, max_workers, registry, downloaded_packages, files,
              worker, results, phase, run, manifest, failed_file, progress>>

vars == <<passVars, probeVars, retryVars>>

\* what no step of a pass changes
inputs == <<package_list, max_workers, probeVars, retryVars>>

---------------------------------------------------------------------------
(* Bounds of the model *)

MaxItems == 2       \* longest package_list of a pass
MaxWorkers == 2     \* widest pool
MaxRuns == 2        \* runs on one output directory
MaxFiles == 3       \* longest release-file list handed to the selector
MaxRetries == 2     \* largest max_retries given to retry_failed_downloads

---------------------------------------------------------------------------
(* Strings *)

None == <<"<None>">>

Truthy(s) == s # None /\ s # <<>>

LowerTok(c) == IF c = "A" THEN "a" ELSE IF c = "B" THEN "b" ELSE c

\* str.lower()
Lower(s) == [i \in 1..Len(s) |-> LowerTok(s[i])]

\* s.startswith(p)
StartsWith(s, p) == Len(s) >= Len(p) /\ SubSeq(s, 1, Len(p)) = p

\* s.endswith(p)
EndsWith(s, p) == Len(s) >= Len(p) /\ SubSeq(s, Len(s) - Len(p) + 1, Len(s)) = p

\* s[i:], i counted from 1
From(s, i) == SubSeq(s, i, Len(s))

\* s.replace(p, ''): every occurrence of p removed, left to right
RECURSIVE Remove(_, _)
Remove(s, p) ==
    IF s = <<>> THEN <<>>
    ELSE IF StartsWith(s, p) THEN Remove(From(s, Len(p) + 1), p)
    ELSE <<Head(s)>> \o Remove(Tail(s), p)

\* s.split(c)[0]
RECURSIVE FirstPart(_, _)
FirstPart(s, c) ==
    IF s = <<>> \/ Head(s) = c THEN <<>>
    ELSE <<Head(s)>> \o FirstPart(Tail(s), c)

\* s.rfind(c), counted from 1; 0 when c is not in s
LastIndex(s, c) ==
    IF \E i \in 1..Len(s) : s[i] = c
    THEN CHOOSE i \in 1..Len(s) : s[i] = c /\ \A j \in (i+1)..Len(s) : s[j] # c
    ELSE 0

\* pathlib's PurePath.suffix: from the last dot of the name, unless that dot is
\* the first or the last character
PathSuffix(name) ==
    LET i == LastIndex(name, ".")
    IN  IF 1 < i /\ i < Len(name) THEN From(name, i) ELSE <<>>

\* os.path.basename
Basename(path) == From(path, LastIndex(path, "/") + 1)

ExtTarGz == <<".", "tar", ".", "gz">>
ExtZip == <<".", "zip">>
ExtWhl == <<".", "whl">>
ExtEgg == <<".", "egg">>

---------------------------------------------------------------------------
(* The index of downloaded packages *)

\* extract_package_name
extract_package_name(filename) ==
    LET name == Remove(Remove(Remove(filename, ExtTarGz), ExtWhl), ExtZip)
        first == FirstPart(name, "-")
    IN  Lower(first)

\* the suffixes load_existing_packages looks for
IndexedSuffixes == {ExtWhl, ExtTarGz, ExtZip}

\* the test of line 51 on a directory entry (every entry of files is a regular file)
IsIndexed(path) == PathSuffix(path) \in IndexedSuffixes

\* load_existing_packages: the set built from a directory listing.
\* (parts[0] of a split is always a list with an element, so a name is always
\* returned; the empty name is falsy and is not added.)
load_existing_packages(dir) ==
    { Lower(extract_package_name(p)) :
        p \in { q \in dir : IsIndexed(q) /\ Truthy(extract_package_name(q)) } }

---------------------------------------------------------------------------
(* Resolution: a package name to one download URL *)

HasKey(f, k) == k \in DOMAIN f

SelectFile_firstListed(release_files) ==
    IF release_files = <<>> THEN None
    ELSE LET chosen == SelectSeq(release_files,
                          LAMBDA f : f.packagetype \in {"sdist", "bdist_wheel"})
         IN  IF chosen # <<>> THEN chosen[1].url ELSE None

SelectFile_lastListed(release_files) ==
    LET source_files == SelectSeq(release_files, LAMBDA f : f.packagetype = "sdist")
        wheel_files == SelectSeq(release_files, LAMBDA f : f.packagetype = "bdist_wheel")
    IN  IF source_files # <<>> THEN source_files[Len(source_files)].url
        ELSE IF wheel_files # <<>> THEN wheel_files[Len(wheel_files)].url
        ELSE None

\* Lines 95-104: the choice among the release files of the latest version.
\* A file entry without the key read by a comprehension raises KeyError, which
\* get_package_info_from_json's handler turns into None.
SelectFile(release_files) ==
    IF release_files = <<>> THEN None
    ELSE IF \E i \in 1..Len(release_files) : ~HasKey(release_files[i], "packagetype") THEN None
    ELSE LET source_files == SelectSeq(release_files, LAMBDA f : f.packagetype = "sdist")
             wheel_files == SelectSeq(release_files, LAMBDA f : f.packagetype = "bdist_wheel")
         IN  IF source_files # <<>>
             THEN IF HasKey(source_files[1], "url") THEN source_files[1].url ELSE None
             ELSE IF wheel_files # <<>>
             THEN IF HasKey(wheel_files[1], "url") THEN wheel_files[1].url ELSE None
             ELSE None

\* get_package_info_from_json, as a function of the answer of GET {base}{name}/json.
\* resp.kind is "http" (an answer with a status) or the exception requests.get
\* raised; resp.doc.kind is "ok", "malformed" (response.json() raises) or
\* "noinfo" (data['info']['version'] raises KeyError).
get_package_info_from_json(resp) ==
    IF resp.kind # "http" THEN None
    ELSE IF resp.status = 404 THEN None
    ELSE IF resp.status >= 400 THEN None
    ELSE IF resp.doc.kind # "ok" THEN None
    ELSE IF resp.doc.version \in DOMAIN resp.doc.releases
         THEN SelectFile(resp.doc.releases[resp.doc.version])
         ELSE None

\* The regular expression of line 130 on the anchors of the page: an href is
\* kept when it ends in .tar.gz, .zip or .whl after at least one character.
IsArchiveLink(h) ==
    \E e \in {ExtTarGz, ExtZip, ExtWhl} : EndsWith(h, e) /\ Len(h) > Len(e)

SelectLink_firstLink(hrefs) ==
    LET links == SelectSeq(hrefs, IsArchiveLink)
    IN  IF links = <<>> THEN None ELSE links[1]

\* Lines 129-145: the links the regular expression extracts, and the choice
\* among them
SelectLink(hrefs) ==
    LET links == SelectSeq(hrefs, IsArchiveLink)
        source_dists == SelectSeq(links,
                           LAMBDA l : EndsWith(l, ExtTarGz) \/ EndsWith(l, ExtZip))
        wheels == SelectSeq(links, LAMBDA l : EndsWith(l, ExtWhl))
    IN  IF links = <<>> THEN None
        ELSE IF source_dists # <<>> THEN source_dists[1]
        ELSE IF wheels # <<>> THEN wheels[1]
        ELSE None

\* get_package_download_url_fallback, as a function of the answer of
\* GET https://pypi.org/simple/{name}/ (resp.hrefs: the anchors of the page).
get_package_download_url_fallback(resp) ==
    IF resp.kind # "http" THEN None
    ELSE IF resp.status = 404 THEN None
    ELSE IF resp.status >= 400 THEN None
    ELSE SelectLink(resp.hrefs)

\* get_package_download_url: the JSON API first, the simple page only when the
\* JSON API gave no URL.
get_package_download_url(site) ==
    LET url == get_package_info_from_json(site.json)
    IN  IF Truthy(url) THEN url
        ELSE LET url2 == get_package_download_url_fallback(site.simple)
             IN  IF Truthy(url2) THEN url2 ELSE None

\* Lines 186-189: "Handle relative URLs"
NormalizeUrl(download_url) ==
    IF StartsWith(download_url, <<"/">>)
    THEN <<"https:", "/", "/", "pypi.org">> \o download_url
    ELSE IF ~(StartsWith(download_url, <<"http:", "/", "/">>)
              \/ StartsWith(download_url, <<"https:", "/", "/">>))
    THEN <<"https:", "/", "/", "files.pythonhosted.org">> \o download_url
    ELSE download_url

---------------------------------------------------------------------------
(* The registry: what the servers answer.  A project is served under the    *)
(* normalised form of the requested name (lower case, '_' read as '-'), so  *)
(* that 'a' and 'A', and 'a-b' and 'a_b', are one project each.             *)

NameA == <<"a">>
NameAUp == <<"A">>
NameAB == <<"a", "-", "b">>
NameA_B == <<"a", "_", "b">>

\* an entry of package_list that is not a string (None): .lower() raises on it
NotAString == None

Project(name) == [i \in 1..Len(name) |-> IF name[i] = "_" THEN "-" ELSE LowerTok(name[i])]

Under(name) == [i \in 1..Len(name) |-> IF name[i] = "-" THEN "_" ELSE name[i]]

\* the file name of a release file of the project, by kind
FileName(project, kind) ==
    CASE kind = "tgz" -> project \o <<"-", "1">> \o ExtTarGz
      [] kind = "zip" -> project \o <<"-", "1">> \o ExtZip
      [] kind = "whl" -> Under(project) \o <<"-", "1", "-", "py3">> \o ExtWhl
      [] kind = "egg" -> project \o <<"-", "1">> \o ExtEgg

\* the URL of a release file, in the form the document gives it
FileUrl(name, kind, form) ==
    LET path == <<"/">> \o name \o <<"/">> \o FileName(Project(name), kind)
    IN  CASE form = "absolute" -> <<"https:", "/", "/", "h">> \o path
          [] form = "root" -> path
          [] form = "scheme" -> <<"/", "/", "h">> \o path
          [] form = "bare" -> Tail(path)

PackageType(kind) ==
    CASE kind \in {"tgz", "zip"} -> "sdist"
      [] kind = "whl" -> "bdist_wheel"
      [] kind = "egg" -> "bdist_egg"

\* an entry of releases[version]
FileEntry(name, kind) ==
    [packagetype |-> PackageType(kind), url |-> FileUrl(name, kind, "absolute")]

\* answers of the metadata endpoint
JsonDoc(name, kinds) ==
    [kind |-> "http", status |-> 200,
     doc |-> [kind |-> "ok", version |-> "1",
              releases |-> [v \in {"1"} |-> [i \in 1..Len(kinds) |-> FileEntry(name, kinds[i])]]]]

NoDoc == [kind |-> "none"]

Json404 == [kind |-> "http", status |-> 404, doc |-> NoDoc]
Json500 == [kind |-> "http", status |-> 500, doc |-> NoDoc]
JsonTimeout == [kind |-> "timeout", status |-> 0, doc |-> NoDoc]
JsonMalformed == [kind |-> "http", status |-> 200, doc |-> [kind |-> "malformed"]]

\* answers of the file-listing endpoint
SimplePage(name, kinds) ==
    [kind |-> "http", status |-> 200,
     hrefs |-> [i \in 1..Len(kinds) |-> FileUrl(name, kinds[i], "absolute")]]

Simple404 == [kind |-> "http", status |-> 404, hrefs |-> <<>>]
SimpleError == [kind |-> "error", status |-> 0, hrefs |-> <<>>]

\* iter_content's chunk size (line 210)
ChunkSize == 8192

\* the per-item timeout future.result is given (line 287), in seconds
ItemDeadline == 300

\* Answers of the download request: request is "ok" or the exception raised by
\* requests.get / raise_for_status; declared is the content-length header (0:
\* none); chunks are the sizes iter_content yields before the stream ends
\* (ending "eof") or raises (ending "timeout", "error"); seconds is the time
\* the transfer takes.
Transfer(request, declared, chunks, ending, seconds) ==
    [request |-> request, declared |-> declared, chunks |-> chunks,
     ending |-> ending, seconds |-> seconds]

TransferFull == Transfer("ok", 200, <<200>>, "eof", 1)
TransferFullTwo == Transfer("ok", 2 * ChunkSize, <<ChunkSize, ChunkSize>>, "eof", 2)
TransferNoLength == Transfer("ok", 0, <<200>>, "eof", 1)
TransferShortByOne == Transfer("ok", 200, <<199>>, "eof", 1)
TransferShort == Transfer("ok", 200, <<50>>, "eof", 1)
TransferCutTwo == Transfer("ok", 2 * ChunkSize, <<ChunkSize>>, "eof", 1)
TransferStreamTimeout == Transfer("ok", 2 * ChunkSize, <<ChunkSize>>, "timeout", 61)
TransferStreamError == Transfer("ok", 2 * ChunkSize, <<ChunkSize>>, "error", 1)
TransferRequestTimeout == Transfer("timeout", 0, <<>>, "eof", 60)
TransferHttpError == Transfer("http_error", 0, <<>>, "eof", 1)
TransferSlow == Transfer("ok", 2 * ChunkSize, <<ChunkSize, ChunkSize>>, "eof", 400)

\* what the servers answer for one name
Site(json, simple, transfer) == [json |-> json, simple |-> simple, transfer |-> transfer]

SiteNotFound(name) == Site(Json404, Simple404, TransferHttpError)

---------------------------------------------------------------------------
(* The output directory.  A file is the sequence of the blocks written to   *)
(* it; a block is chunk k of the body of a URL, or a hole left by a write    *)
(* beyond the end of the file.                                               *)

EmptyDir == [p \in {} |-> <<>>]

Block(url, k, n) == [url |-> url, k |-> k, n |-> n]

Hole == Block(<<>>, 0, ChunkSize)

RECURSIVE ContentSize(_)
ContentSize(content) ==
    IF content = <<>> THEN 0 ELSE Head(content).n + ContentSize(Tail(content))

\* the body of transfer t of url, as a complete file holds it
Body(url, t) == [k \in 1..Len(t.chunks) |-> Block(url, k, t.chunks[k])]

PutFile(dir, path, content) ==
    [q \in DOMAIN dir \cup {path} |-> IF q = path THEN content ELSE dir[q]]

Unlink_kept(dir, path) == dir

\* Path.unlink(missing_ok=True)
Unlink(dir, path) == [q \in DOMAIN dir \ {path} |-> dir[q]]

\* a write of block b at block position pos of the file
WriteAt(content, pos, b) ==
    [k \in 1..(IF pos > Len(content) THEN pos ELSE Len(content)) |->
        IF k = pos THEN b ELSE IF k <= Len(content) THEN content[k] ELSE Hole]

---------------------------------------------------------------------------
(* Results *)

NoResult == [status |-> "none"]

\* the future of the item ended with an exception
Raised == [status |-> "raised"]

ResultSkipped(name) ==
    [name |-> name, status |-> "skipped", reason |-> "already_downloaded"]

ResultFailed(name, reason) == [name |-> name, status |-> "failed", reason |-> reason]

ResultSuccess(name, filename, size, url) ==
    [name |-> name, status |-> "success", filename |-> filename, size |-> size,
     url |-> url]

\* Line 291: a progress line every 50 completions
ProgressEvery == 50

\* str(e) of the FileNotFoundError filepath.stat() raises
ErrNoEntry == "[Errno 2] No such file or directory"

CountStatus_upTo(rs, status) ==
    Cardinality({k \in 1..Len(rs) : rs[k].status \in {status, "success"}})

\* len([r for r in results if r['status'] == status]), lines 316-318
CountStatus(rs, status) == Cardinality({k \in 1..Len(rs) : rs[k].status = status})

SumSizes_firstOnly(rs) ==
    IF rs # <<>> /\ Head(rs).status = "success" THEN Head(rs).size ELSE 0

\* sum(r.get('size', 0) for r in successful), line 320
RECURSIVE SumSizes(_)
SumSizes(rs) ==
    IF rs = <<>> THEN 0
    ELSE (IF Head(rs).status = "success" THEN Head(rs).size ELSE 0) + SumSizes(Tail(rs))

\* generate_statistics; the rates are kept as the fractions <<numerator, denominator>>
generate_statistics(rs) ==
    LET n_successful == CountStatus(rs, "success")
        total_size == SumSizes(rs)
    IN  [total |-> Len(rs),
         successful |-> n_successful,
         skipped |-> CountStatus(rs, "skipped"),
         failed |-> CountStatus(rs, "failed"),
         success_rate |-> IF rs # <<>> THEN <<n_successful * 100, Len(rs)>> ELSE <<0, 1>>,
         total_size |-> total_size,
         average_size |-> IF n_successful > 0 THEN <<total_size, n_successful>> ELSE <<0, 1>>]

\* the names main() writes to failed_packages.txt
FailedNames(rs) ==
    LET failed_results == SelectSeq(rs, LAMBDA r : r.status = "failed")
    IN  [k \in 1..Len(failed_results) |-> failed_results[k].name]

---------------------------------------------------------------------------
(* One pass: download_all_packages and the download_package calls it runs *)

Items == 1..Len(package_list)

NewWorker ==
    [pc |-> "queued", download_url |-> None, filename |-> None, written |-> 0,
     downloaded_size |-> 0, linked |-> FALSE, result |-> NoResult]

Running(i) == worker[i].pc \notin {"queued", "done", "collected"}

NumRunning == Cardinality({i \in Items : Running(i)})

IsString(name) == name # NotAString

TransferOf(i) == registry[package_list[i]].transfer

Finish(i, result) == [worker EXCEPT ![i].pc = "done", ![i].result = result]

\* Line 181: "if not download_url"
HasNoUrl_emptyOnly(url) == url = <<>>

HasNoUrl(url) == ~Truthy(url)

\* Line 216: the download is short of (or beyond) the declared length
IsIncomplete_emptyOnly(total_size, downloaded_size) ==
    total_size > 0 /\ downloaded_size = 0

IsIncomplete(total_size, downloaded_size) ==
    total_size > 0 /\ downloaded_size # total_size

\* main() found no package to download (lines 374-376)
NoPackages ==
    /\ phase = "start"
    /\ package_list = <<>>
    /\ phase' = "ended"
    /\ UNCHANGED <<inputs, registry, downloaded_packages, files,
                   worker, results, run, manifest, failed_file, progress>>

\* Lines 270-281: every item is submitted to the pool.
BeginPass ==
    /\ phase = "start"
    /\ package_list # <<>>
    /\ phase' = "pass"
    /\ worker' = [i \in Items |-> NewWorker]
    /\ progress' = <<>>
    /\ results' = <<>>
    /\ UNCHANGED <<inputs, registry, downloaded_packages, files,
                   run, manifest, failed_file>>

ErrorReason_allNetwork(exc) == "network_error"

\* Lines 235-240: the handler a requests exception meets, Timeout before
\* RequestException
ErrorReason(exc) == IF exc = "timeout" THEN "timeout" ELSE "network_error"

IsDownloaded_exactCase(name) == name \in downloaded_packages

\* Line 174: the membership test
IsDownloaded(name) == Lower(name) \in downloaded_packages

PoolHasRoom_unbounded(running, size) == TRUE

PoolHasRoom_oneLess(running, size) == running < size - 1

\* ThreadPoolExecutor(max_workers=...), line 276: a queued call starts only on
\* one of the pool's threads, and a thread runs one call at a time
PoolHasRoom(running, size) == running < size

\* A pool thread takes the next item of the queue and download_package makes
\* its membership test (lines 173-176).
Start(i) ==
    /\ phase = "pass"
    /\ worker[i].pc = "queued"
    /\ \A j \in Items : j < i => worker[j].pc # "queued"
    /\ PoolHasRoom(NumRunning, max_workers)
    /\ worker' =
         IF ~IsString(package_list[i]) THEN Finish(i, Raised)
         ELSE IF IsDownloaded(package_list[i])
         THEN Finish(i, ResultSkipped(package_list[i]))
         ELSE [worker EXCEPT ![i].pc = "resolve"]
    /\ UNCHANGED <<inputs, registry, downloaded_packages, files,
                   results, phase, run, manifest, failed_file, progress>>

\* Lines 178-208: the URL is resolved and normalised, the download is requested
\* and the file is opened for writing (created, or truncated when it exists).
Fetch(i) ==
    /\ phase = "pass"
    /\ worker[i].pc = "resolve"
    /\ LET name == package_list[i]
           url == get_package_download_url(registry[name])
           download_url == NormalizeUrl(url)
           filename == Basename(download_url)
           t == TransferOf(i)
       IN  IF HasNoUrl(url)
           THEN /\ worker' = Finish(i, ResultFailed(name, "no_download_url"))
                /\ files' = files
           ELSE IF t.request # "ok"
           THEN /\ worker' = Finish(i, ResultFailed(name, ErrorReason(t.request)))
                /\ files' = files
           ELSE /\ worker' = [worker EXCEPT ![i].pc = "stream",
                                            ![i].download_url = download_url,
                                            ![i].filename = filename,
                                            ![i].linked = TRUE]
                /\ files' = PutFile(files, filename, <<>>)
    /\ UNCHANGED <<inputs, registry, downloaded_packages,
                   results, phase, run, manifest, failed_file, progress>>

\* Lines 210-213: one chunk of the body is written at the position of this
\* worker's file object; the directory sees it while the path still names the
\* file this worker opened.
WriteChunk(i) ==
    /\ phase = "pass"
    /\ worker[i].pc = "stream"
    /\ worker[i].written < Len(TransferOf(i).chunks)
    /\ LET w == worker[i]
           k == w.written + 1
           n == TransferOf(i).chunks[k]
       IN  /\ worker' = [worker EXCEPT ![i].written = k,
                                       ![i].downloaded_size = w.downloaded_size + n]
           /\ files' = IF w.linked
                       THEN PutFile(files, w.filename,
                                    WriteAt(files[w.filename], k, Block(w.download_url, k, n)))
                       ELSE files
    /\ UNCHANGED <<inputs, registry, downloaded_packages,
                   results, phase, run, manifest, failed_file, progress>>

\* iter_content raises in mid-stream: the with block closes the file and the
\* handlers of lines 235-240 give the result.  The file stays.
StreamRaises(i) ==
    /\ phase = "pass"
    /\ worker[i].pc = "stream"
    /\ worker[i].written = Len(TransferOf(i).chunks)
    /\ TransferOf(i).ending # "eof"
    /\ worker' = Finish(i, ResultFailed(package_list[i], ErrorReason(TransferOf(i).ending)))
    /\ UNCHANGED <<inputs, registry, downloaded_packages, files,
                   results, phase, run, manifest, failed_file, progress>>

\* Lines 215-219: the stream ended; the byte count is compared with the
\* declared length and the file of a short download is unlinked.
Verify(i) ==
    /\ phase = "pass"
    /\ worker[i].pc = "stream"
    /\ worker[i].written = Len(TransferOf(i).chunks)
    /\ TransferOf(i).ending = "eof"
    /\ LET w == worker[i]
           total_size == TransferOf(i).declared
       IN  IF IsIncomplete(total_size, w.downloaded_size)
           THEN /\ files' = Unlink(files, w.filename)
                /\ worker' = [j \in Items |->
                      IF j = i
                      THEN [w EXCEPT !.pc = "done", !.linked = FALSE,
                                     !.result = ResultFailed(package_list[i],
                                                             "incomplete_download")]
                      ELSE IF worker[j].filename = w.filename
                      THEN [worker[j] EXCEPT !.linked = FALSE]
                      ELSE worker[j]]
           ELSE /\ files' = files
                /\ worker' = [worker EXCEPT ![i].pc = "add"]
    /\ UNCHANGED <<inputs, registry, downloaded_packages,
                   results, phase, run, manifest, failed_file, progress>>

AddName_replaced(set, name) == {Lower(name)}

\* Line 222: set.add of the lower-case name
AddName(set, name) == set \cup {Lower(name)}

\* Lines 221-222
Add(i) ==
    /\ phase = "pass"
    /\ worker[i].pc = "add"
    /\ downloaded_packages' = AddName(downloaded_packages, package_list[i])
    /\ worker' = [worker EXCEPT ![i].pc = "stat"]
    /\ UNCHANGED <<inputs, registry, files, results, phase, run,
                   manifest, failed_file, progress>>

\* Lines 224-233 and 241-243: the size is read from the path; a path that no
\* longer exists raises, and the catch-all handler gives the result.
Stat(i) ==
    /\ phase = "pass"
    /\ worker[i].pc = "stat"
    /\ LET w == worker[i]
       IN  worker' =
             IF w.filename \in DOMAIN files
             THEN Finish(i, ResultSuccess(package_list[i], w.filename,
                                          ContentSize(files[w.filename]), w.download_url))
             ELSE Finish(i, ResultFailed(package_list[i], ErrNoEntry))
    /\ UNCHANGED <<inputs, registry, downloaded_packages, files,
                   results, phase, run, manifest, failed_file, progress>>

\* download_package(name) as a function: the result of the call when no other
\* call touches its file (lines 178-243), the name not being in the set
download_package(name, site) ==
    LET url == get_package_download_url(site)
        download_url == NormalizeUrl(url)
        t == site.transfer
        file_size == ContentSize(Body(download_url, t))
    IN  IF HasNoUrl(url) THEN ResultFailed(name, "no_download_url")
        ELSE IF t.request # "ok" THEN ResultFailed(name, ErrorReason(t.request))
        ELSE IF t.ending # "eof" THEN ResultFailed(name, ErrorReason(t.ending))
        ELSE IF IsIncomplete(t.declared, file_size)
        THEN ResultFailed(name, "incomplete_download")
        ELSE ResultSuccess(name, Basename(download_url), file_size, download_url)

\* Lines 284-308: as_completed hands over a finished future; its result is
\* appended, or a processing_error when future.result raises.
CollectResult_dropRaised(i) ==
    IF worker[i].result = Raised THEN results ELSE Append(results, worker[i].result)

CollectResult(i) ==
    IF worker[i].result = Raised
    THEN Append(results, ResultFailed(package_list[i], "processing_error"))
    ELSE Append(results, worker[i].result)

\* Lines 291-300: the progress line logged at a completion, with the counts
\* taken from the list after the append
Snapshot(rs, n) ==
    [completed |-> n, total |-> Len(package_list),
     success |-> CountStatus(rs, "success"), failed |-> CountStatus(rs, "failed")]

\* the test of line 291, reached only in the try branch, after future.result()
\* has returned
LogsProgress(i, n) ==
    /\ worker[i].result # Raised
    /\ n % ProgressEvery = 0 \/ n = Len(package_list)

Collect(i) ==
    /\ phase = "pass"
    /\ worker[i].pc = "done"
    /\ results' = CollectResult(i)
    /\ progress' = IF LogsProgress(i, Len(results) + 1)
                   THEN Append(progress, Snapshot(CollectResult(i), Len(results) + 1))
                   ELSE progress
    /\ worker' = [worker EXCEPT ![i].pc = "collected"]
    /\ UNCHANGED <<inputs, registry, downloaded_packages, files,
                   phase, run, manifest, failed_file>>

\* Line 310: as_completed is exhausted, the pool has shut down, the list is returned.
ReturnPass ==
    /\ phase = "pass"
    /\ \A i \in Items : worker[i].pc = "collected"
    /\ phase' = "returned"
    /\ UNCHANGED <<inputs, registry, downloaded_packages, files,
                   worker, results, run, manifest, failed_file, progress>>

\* main(), lines 395-405: save_results writes the manifest; the failed names
\* are written only when there are some.
SaveResults ==
    /\ phase = "returned"
    /\ manifest' = [statistics |-> generate_statistics(results), results |-> results]
    /\ failed_file' = IF FailedNames(results) # <<>> THEN FailedNames(results)
                      ELSE failed_file
    /\ phase' = "ended"
    /\ UNCHANGED <<inputs, registry, downloaded_packages, files,
                   worker, results, run, progress>>

---------------------------------------------------------------------------
(* The specification of one run: main() on a fresh output directory *)

NoManifest == [results |-> <<>>]

NoFailedFile == <<>>

\* sequences over S of length at most n
SeqUpTo(S, n) == UNION {[1..k -> S] : k \in 0..n}

StringNames == {NameA, NameAUp, NameAB, NameA_B}

PackageNames == StringNames \cup {NotAString}

\* Sites by what they serve
SiteSdist(name, transfer) == Site(JsonDoc(name, <<"whl", "tgz">>), Simple404, transfer)
SiteZip(name, transfer) == Site(JsonDoc(name, <<"zip">>), Simple404, transfer)
SiteWheelFallback(name) == Site(Json404, SimplePage(name, <<"whl">>), TransferNoLength)
SiteZipFallback(name) == Site(JsonMalformed, SimplePage(name, <<"whl", "zip">>), TransferFull)

\* a registry from the sites of the four names
World(a, aUp, ab, a_b) ==
    [n \in StringNames |->
        CASE n = NameA -> a [] n = NameAUp -> aUp [] n = NameAB -> ab [] n = NameA_B -> a_b]

\* the registries of the runs checked
Worlds ==
    { World(SiteSdist(NameA, TransferFullTwo), SiteSdist(NameAUp, TransferFullTwo),
            SiteSdist(NameAB, TransferFullTwo), SiteSdist(NameA_B, TransferSlow)),
      World(SiteZip(NameA, TransferFull), SiteZip(NameAUp, TransferFull),
            SiteZip(NameAB, TransferFull), SiteZip(NameA_B, TransferFull)),
      World(SiteZip(NameA, TransferShortByOne), SiteZip(NameAUp, TransferFull),
            SiteNotFound(NameAB), SiteWheelFallback(NameA_B)),
      World(SiteZip(NameA, TransferStreamTimeout), SiteSdist(NameAUp, TransferFullTwo),
            SiteZip(NameAB, TransferShort), SiteZip(NameA_B, TransferFull)),
      World(SiteNotFound(NameA), SiteWheelFallback(NameAUp),
            SiteSdist(NameAB, TransferStreamError), SiteSdist(NameA_B, TransferCutTwo)),
      World(SiteZip(NameA, TransferRequestTimeout), SiteZip(NameAUp, TransferHttpError),
            SiteZip(NameAB, TransferNoLength), SiteZipFallback(NameA_B)) }

\* the variables of the other programs, while they do not run
ProbeIdle == probe_in = <<>> /\ probe_out = <<>>

RetryIdle ==
    /\ packages = <<>>
    /\ max_retries = 0
    /\ download_dir = EmptyDir
    /\ successful = <<>>
    /\ failed = <<>>
    /\ all_retry_successful = <<>>
    /\ all_retry_failed = <<>>
    /\ retry_successful = <<>>
    /\ still_failed = <<>>
    /\ retry = 0
    /\ cursor = 0
    /\ rpc = "idle"

InitRun(lists, worlds, widths) ==
    /\ package_list \in lists
    /\ max_workers \in widths
    /\ registry \in worlds
    /\ files = EmptyDir
    /\ downloaded_packages = load_existing_packages(DOMAIN files)
    /\ worker = [i \in Items |-> NewWorker]
    /\ results = <<>>
    /\ phase = "start"
    /\ run = 1
    /\ manifest = NoManifest
    /\ failed_file = NoFailedFile
    /\ progress = <<>>
    /\ ProbeIdle
    /\ RetryIdle

Init == InitRun(SeqUpTo(PackageNames, MaxItems), Worlds, 1..MaxWorkers)

NextRun ==
    \/ NoPackages
    \/ BeginPass
    \/ \E i \in Items : Start(i)
    \/ \E i \in Items : Fetch(i)
    \/ \E i \in Items : WriteChunk(i)
    \/ \E i \in Items : StreamRaises(i)
    \/ \E i \in Items : Verify(i)
    \/ \E i \in Items : Add(i)
    \/ \E i \in Items : Stat(i)
    \/ \E i \in Items : Collect(i)
    \/ ReturnPass
    \/ SaveResults

Next == NextRun

Spec == Init /\ [][Next]_vars

\* the steps of the pool thread that runs item i
WorkerStep(i) ==
    /\ i \in Items
    /\ \/ Start(i)
       \/ Fetch(i)
       \/ WriteChunk(i)
       \/ StreamRaises(i)
       \/ Verify(i)
       \/ Add(i)
       \/ Stat(i)

\* the steps of the main thread
MainStep ==
    \/ NoPackages
    \/ BeginPass
    \/ \E i \in Items : Collect(i)
    \/ ReturnPass
    \/ SaveResults

\* Every thread that can take a step takes one in the end: the threads of the
\* pool are scheduled by the operating system, every request returns, raises
\* or times out (timeout=60, line 201), and as_completed (line 284) hands
\* over every finished future.
Fairness ==
    /\ WF_vars(MainStep)
    /\ \A i \in 1..MaxItems : WF_vars(WorkerStep(i))


---------------------------------------------------------------------------
(* Runs one after the other on one output directory *)

\* main() is started again on the same input: __init__ (lines 19-33) builds a
\* new downloader, whose index load_existing_packages reads from the directory.
\* The servers need not answer as they did.
NewRun ==
    /\ phase = "ended"
    /\ run < MaxRuns
    /\ run' = run + 1
    /\ registry' \in Worlds
    /\ downloaded_packages' = load_existing_packages(DOMAIN files)
    /\ worker' = [i \in Items |-> NewWorker]
    /\ results' = <<>>
    /\ phase' = "start"
    /\ UNCHANGED <<inputs, files, manifest, failed_file, progress>>

InitRuns == InitRun(SeqUpTo(StringNames, MaxItems), Worlds, 1..MaxWorkers)

NextRuns ==
    \/ NextRun
    \/ NewRun

SpecRuns == InitRuns /\ [][NextRuns]_vars

---------------------------------------------------------------------------
(* The end-to-end scenario: alpha is served whole, beta is not found, gamma's *)
(* stream stops at 50 of 200 bytes                                            *)

Alpha == <<"a", "l", "p", "h", "a">>
Beta == <<"b", "e", "t", "a">>
Gamma == <<"g", "a", "m", "m", "a">>

\* main()'s pool width (line 362)
DefaultWorkers == 3

ScenarioWorldWith(gamma) ==
    [n \in {Alpha, Beta, Gamma} |->
        CASE n = Alpha -> SiteSdist(Alpha, TransferFull)
          [] n = Beta -> SiteNotFound(Beta)
          [] n = Gamma -> SiteSdist(Gamma, gamma)]

ScenarioWorld == ScenarioWorldWith(TransferShort)

\* The scenario, and beside it the runs in which the list is empty or gamma's
\* stream raises instead of stopping.
InitScenario ==
    InitRun({<<>>, <<Alpha, Beta, Gamma>>},
            {ScenarioWorld, ScenarioWorldWith(TransferStreamTimeout)},
            1..DefaultWorkers)

SpecScenario == InitScenario /\ [][NextRun]_vars

---------------------------------------------------------------------------
(* main() from its first line: the downloader is constructed, the package    *)
(* list is read from the CSV file, and the run is made                       *)

MaxRows == 2        \* most rows of a CSV file

Space == " "

RECURSIVE StripLeft(_)
StripLeft(s) == IF s # <<>> /\ Head(s) = Space THEN StripLeft(Tail(s)) ELSE s

Reverse(s) == [k \in 1..Len(s) |-> s[Len(s) + 1 - k]]

\* str.strip()
Strip(s) == Reverse(StripLeft(Reverse(StripLeft(s))))

\* rows as csv.reader gives them, each a list of fields: a blank line, a name,
\* a padded name followed by a second field, a comment, a line of blanks, an
\* indented comment, a quoted empty field
CsvRows ==
    { <<>>,
      <<NameA>>,
      << <<Space>> \o NameAB \o <<Space>>, <<"x">> >>,
      << <<"#", "c">> >>,
      << <<Space>> >>,
      << <<Space, "#", "c">> >>,
      << <<>> >> }

\* famous.csv: absent, or present with its rows; an unreadable file raises at
\* open() or while its rows are read
CsvFiles ==
    { [state |-> "missing", rows |-> <<>>] }
        \cup { [state |-> st, rows |-> rs] :
                 st \in {"readable", "unreadable"}, rs \in SeqUpTo(CsvRows, MaxRows) }

\* row[0].strip(), line 255
RowName(row) == Strip(row[1])

KeepsRow_everyRow(row) == row # <<>>

\* the tests of lines 254 and 256
KeepsRow(row) ==
    /\ row # <<>>
    /\ RowName(row) # <<>>
    /\ ~StartsWith(RowName(row), <<"#">>)

load_package_list_from_csv_keepsRead(csv) ==
    LET kept == SelectSeq(csv.rows, KeepsRow)
    IN  [k \in 1..Len(kept) |-> RowName(kept[k])]

\* load_package_list_from_csv: the names of the rows kept, or the empty list
\* when open() or the reading raised (lines 262-264)
load_package_list_from_csv(csv) ==
    IF csv.state # "readable" THEN <<>>
    ELSE LET kept == SelectSeq(csv.rows, KeepsRow)
         IN  [k \in 1..Len(kept) |-> RowName(kept[k])]

\* a registry in which 'a' is downloaded and the download of 'a-b' times out
\* in mid-stream
MainWorld ==
    World(SiteSdist(NameA, TransferFullTwo), SiteSdist(NameAUp, TransferFullTwo),
          SiteZip(NameAB, TransferStreamTimeout), SiteZipFallback(NameA_B))

InitMain ==
    /\ probe_in \in [output_dir_ok : BOOLEAN, csv_file : CsvFiles]
    /\ probe_out = <<>>
    /\ package_list = <<>>
    /\ max_workers = DefaultWorkers
    /\ registry = MainWorld
    /\ files = EmptyDir
    /\ downloaded_packages = {}
    /\ worker = <<>>
    /\ results = <<>>
    /\ phase = "main"
    /\ run = 1
    /\ manifest = NoManifest
    /\ failed_file = NoFailedFile
    /\ progress = <<>>
    /\ RetryIdle

\* Lines 366-369: PyPIDownloader(...) creates the output directory and reads
\* its index; when mkdir raises, nothing catches it and main() ends there.
Construct ==
    /\ phase = "main"
    /\ IF probe_in.output_dir_ok
       THEN /\ downloaded_packages' = load_existing_packages(DOMAIN files)
            /\ phase' = "load"
       ELSE /\ phase' = "crashed"
            /\ UNCHANGED downloaded_packages
    /\ UNCHANGED <<inputs, registry, files, worker, results, run, manifest, failed_file, progress>>

\* Line 372: the package list is read
LoadList ==
    /\ phase = "load"
    /\ package_list' = load_package_list_from_csv(probe_in.csv_file)
    /\ phase' = "start"
    /\ UNCHANGED <<max_workers, probeVars, retryVars, registry, downloaded_packages,
                   files, worker, results, run, manifest, failed_file, progress>>

NextMain ==
    \/ Construct
    \/ LoadList
    \/ NextRun

SpecMain == InitMain /\ [][NextMain]_vars

---------------------------------------------------------------------------
(* A pass under fair scheduling *)

\* a name that is downloaded, one whose stream times out, and an entry on
\* which download_package raises
LiveNames == {NameA, NameAB, NotAString}

\* pools of one worker and of two
InitLive == InitRun(SeqUpTo(LiveNames, MaxItems), {MainWorld}, {1, 2})

SpecLive == InitLive /\ [][Next]_vars /\ Fairness

---------------------------------------------------------------------------
(* The structured lookup on its own: get_package_info_from_json applied to   *)
(* the answers of the metadata endpoint                                      *)

Pending == <<"<pending>">>

\* the variables of a run, while no run is made
PassIdle ==
    /\ package_list = <<>>
    /\ max_workers = 1
    /\ registry = <<>>
    /\ downloaded_packages = {}
    /\ files = EmptyDir
    /\ worker = <<>>
    /\ results = <<>>
    /\ phase = "idle"
    /\ run = 0
    /\ manifest = NoManifest
    /\ failed_file = NoFailedFile
    /\ progress = <<>>

\* the release files a document may list
SelectorEntries == {FileEntry(NameA, kind) : kind \in {"tgz", "zip", "whl", "egg"}}

\* a document of latest version "1" whose releases list release_files under
\* that version (listed) or only under another one
JsonFiles(release_files, listed) ==
    [kind |-> "http", status |-> 200,
     doc |-> [kind |-> "ok", version |-> "1",
              releases |-> [v \in {IF listed THEN "1" ELSE "0"} |-> release_files]]]

JsonAnswers ==
    {JsonFiles(fs, listed) : fs \in SeqUpTo(SelectorEntries, MaxFiles), listed \in BOOLEAN}
        \cup {Json404, Json500, JsonTimeout, JsonMalformed}

InitSelect ==
    /\ probe_in \in JsonAnswers
    /\ probe_out = Pending
    /\ PassIdle
    /\ RetryIdle

ApplyJsonLookup ==
    /\ probe_out = Pending
    /\ probe_out' = get_package_info_from_json(probe_in)
    /\ UNCHANGED <<probe_in, passVars, retryVars>>

NextSelect == ApplyJsonLookup

SpecSelect == InitSelect /\ [][NextSelect]_vars

---------------------------------------------------------------------------
(* The resolution step by step: get_package_download_url and the lines of    *)
(* download_package that normalise its URL, with the requests issued and the *)
(* exceptions raised inside the two lookups                                  *)

\* how a body of code ends: it returns a value or raises an exception
Return(value) == [raised |-> FALSE, exc |-> "", value |-> value]
Raise(exc) == [raised |-> TRUE, exc |-> exc, value |-> None]

\* the classes that derive from Exception
IsException(exc) == exc \in {"RequestException", "ValueError", "KeyError"}

\* the try block of get_package_info_from_json (lines 77-107)
JsonBody(resp) ==
    IF resp.kind # "http" THEN Raise("RequestException")
    ELSE IF resp.status = 404 THEN Return(None)
    ELSE IF resp.status >= 400 THEN Raise("RequestException")
    ELSE IF resp.doc.kind = "malformed" THEN Raise("ValueError")
    ELSE IF resp.doc.kind = "noinfo" THEN Raise("KeyError")
    ELSE IF resp.doc.version \notin DOMAIN resp.doc.releases THEN Return(None)
    ELSE LET release_files == resp.doc.releases[resp.doc.version]
             source_files == SelectSeq(release_files, LAMBDA f : f.packagetype = "sdist")
             wheel_files == SelectSeq(release_files, LAMBDA f : f.packagetype = "bdist_wheel")
         IN  IF release_files = <<>> THEN Return(None)
             ELSE IF \E i \in 1..Len(release_files) : ~HasKey(release_files[i], "packagetype")
             THEN Raise("KeyError")
             ELSE IF source_files # <<>>
             THEN IF HasKey(source_files[1], "url") THEN Return(source_files[1].url)
                  ELSE Raise("KeyError")
             ELSE IF wheel_files # <<>>
             THEN IF HasKey(wheel_files[1], "url") THEN Return(wheel_files[1].url)
                  ELSE Raise("KeyError")
             ELSE Return(None)

JsonHandlers_networkOnly(outcome) ==
    IF outcome.raised /\ outcome.exc = "RequestException" THEN Return(None) ELSE outcome

\* the except clauses of get_package_info_from_json (lines 109-114)
JsonHandlers(outcome) ==
    IF ~outcome.raised THEN outcome
    ELSE IF outcome.exc = "RequestException" THEN Return(None)
    ELSE IF IsException(outcome.exc) THEN Return(None)
    ELSE outcome

\* the try block of get_package_download_url_fallback (lines 120-145)
FallbackBody(resp) ==
    IF resp.kind # "http" THEN Raise("RequestException")
    ELSE IF resp.status = 404 THEN Return(None)
    ELSE IF resp.status >= 400 THEN Raise("RequestException")
    ELSE Return(SelectLink(resp.hrefs))

\* its except clause (lines 147-149)
FallbackHandlers(outcome) ==
    IF outcome.raised /\ IsException(outcome.exc) THEN Return(None) ELSE outcome

FoundUrl_never(url) == FALSE

\* Lines 157 and 163: "if url"
FoundUrl(url) == Truthy(url)

\* documents that make the parsing raise: no info.version, a file entry
\* without packagetype, a file entry without url
JsonNoInfo == [kind |-> "http", status |-> 200, doc |-> [kind |-> "noinfo"]]

JsonBadFiles ==
    { [kind |-> "http", status |-> 200,
       doc |-> [kind |-> "ok", version |-> "1", releases |-> [v \in {"1"} |-> <<entry>>]]] :
         entry \in { [url |-> FileUrl(NameA, "tgz", "absolute")], [packagetype |-> "sdist"],
                     [packagetype |-> "bdist_wheel"] } }

ResolveJsonAnswers == JsonAnswers \cup {JsonNoInfo} \cup JsonBadFiles

\* a page of the file-listing endpoint with the given anchors
LinksPage(hrefs) == [kind |-> "http", status |-> 200, hrefs |-> hrefs]

Simple500 == [kind |-> "http", status |-> 500, hrefs |-> <<>>]

UrlForms == {"absolute", "root", "scheme", "bare"}

\* pages of absolute links in every order, pages of one link in each form
SimpleAnswers ==
    {LinksPage(hrefs) :
        hrefs \in SeqUpTo({FileUrl(NameA, kind, "absolute") :
                              kind \in {"tgz", "zip", "whl", "egg"}}, MaxFiles)}
        \cup {LinksPage(<<FileUrl(NameA, kind, form)>>) :
                 kind \in {"tgz", "whl"}, form \in UrlForms}
        \cup {Simple404, Simple500, SimpleError}

ResolveSites ==
    {Site(json, simple, TransferFull) :
        json \in ResolveJsonAnswers,
        simple \in {Simple404, SimpleError, SimplePage(NameA, <<"whl", "zip">>)}}
    \cup
    {Site(json, simple, TransferFull) :
        json \in {Json404, Json500, JsonTimeout, JsonMalformed, JsonDoc(NameA, <<"whl">>)},
        simple \in SimpleAnswers}

\* the call has made no request yet
NewResolution ==
    [pc |-> "json", requests |-> <<>>, json |-> Pending, url |-> Pending,
     download_url |-> Pending]

InitResolve ==
    /\ probe_in \in ResolveSites
    /\ probe_out = NewResolution
    /\ PassIdle
    /\ RetryIdle

\* Lines 155-158: the JSON API is asked
JsonLookup ==
    /\ probe_out.pc = "json"
    /\ LET outcome == JsonHandlers(JsonBody(probe_in.json))
       IN  probe_out' =
             [probe_out EXCEPT
                !.requests = Append(@, "json"),
                !.json = IF outcome.raised THEN Pending ELSE outcome.value,
                !.url = IF ~outcome.raised /\ FoundUrl(outcome.value)
                        THEN outcome.value ELSE Pending,
                !.pc = IF outcome.raised THEN "raised"
                       ELSE IF FoundUrl(outcome.value) THEN "normalize" ELSE "fallback"]
    /\ UNCHANGED <<probe_in, passVars, retryVars>>

\* Lines 160-167: the simple page is asked
FallbackLookup ==
    /\ probe_out.pc = "fallback"
    /\ LET outcome == FallbackHandlers(FallbackBody(probe_in.simple))
       IN  probe_out' =
             [probe_out EXCEPT
                !.requests = Append(@, "simple"),
                !.url = IF outcome.raised THEN Pending
                        ELSE IF FoundUrl(outcome.value) THEN outcome.value ELSE None,
                !.pc = IF outcome.raised THEN "raised" ELSE "normalize"]
    /\ UNCHANGED <<probe_in, passVars, retryVars>>

\* download_package, lines 180-189: no URL ends the call; a URL is normalised
\* and handed to the download request
Normalize ==
    /\ probe_out.pc = "normalize"
    /\ probe_out' =
         IF HasNoUrl(probe_out.url)
         THEN [probe_out EXCEPT !.pc = "no_download_url"]
         ELSE [probe_out EXCEPT !.pc = "request",
                                !.download_url = NormalizeUrl(probe_out.url)]
    /\ UNCHANGED <<probe_in, passVars, retryVars>>

NextResolve ==
    \/ JsonLookup
    \/ FallbackLookup
    \/ Normalize

SpecResolve == InitResolve /\ [][NextResolve]_vars

---------------------------------------------------------------------------
(* process_benign.py: the sequential download from the mirror and the retry  *)
(* of what failed.  A file of download_dir is "whole" or "partial".          *)

\* a file of a release, as the mirror's document lists it
MirrorFile(name, kind) ==
    [packagetype |-> PackageType(kind), filename |-> FileName(Project(name), kind),
     url |-> FileUrl(name, kind, "absolute")]

\* the document: info.version, and the releases in the order of the document,
\* each a pair <<version, files>>
MirrorDoc(version, releases) == [version |-> version, releases |-> releases]

\* Python's None where a document or a file entry is expected
NoInfo == [none |-> TRUE]

\* answers of GET {mirror_base}/{package_name}/json
MirrorAnswers(name) ==
    { [kind |-> "timeout", status_code |-> 0, doc |-> NoInfo],
      [kind |-> "http", status_code |-> 404, doc |-> NoInfo],
      [kind |-> "http", status_code |-> 200,
       doc |-> MirrorDoc("1", << <<"1", <<MirrorFile(name, "whl"), MirrorFile(name, "zip"),
                                          MirrorFile(name, "tgz")>> >> >>)],
      [kind |-> "http", status_code |-> 200,
       doc |-> MirrorDoc("1", << <<"1", <<MirrorFile(name, "whl")>> >> >>)],
      [kind |-> "http", status_code |-> 200,
       doc |-> MirrorDoc("2", << <<"0", <<>> >>, <<"1", <<MirrorFile(name, "zip")>> >> >>)] }

\* get_package_info_from_mirror, as a function of the answer
get_package_info_from_mirror(resp) ==
    IF resp.kind # "http" THEN NoInfo
    ELSE IF resp.status_code = 200 THEN resp.doc
    ELSE NoInfo

IsListed(releases, version) == \E k \in 1..Len(releases) : releases[k][1] = version

\* releases[version]
FilesOfVersion(releases, version) ==
    SelectSeq(releases, LAMBDA r : r[1] = version)[1][2]

\* Lines 61-77 of find_source_distribution: the choice among the files of the
\* release
SourceFile(release_files) ==
    LET source_files == SelectSeq(release_files, LAMBDA f : f.packagetype = "sdist")
        tar_gz_files == SelectSeq(source_files, LAMBDA f : EndsWith(f.filename, ExtTarGz))
        zip_files == SelectSeq(source_files, LAMBDA f : EndsWith(f.filename, ExtZip))
    IN  IF source_files = <<>> THEN NoInfo
        ELSE IF tar_gz_files # <<>> THEN tar_gz_files[1]
        ELSE IF zip_files # <<>> THEN zip_files[1]
        ELSE source_files[1]

\* find_source_distribution
find_source_distribution(package_info) ==
    IF package_info = NoInfo THEN NoInfo
    ELSE LET releases == package_info.releases
             available_versions == SelectSeq(releases, LAMBDA r : r[2] # <<>>)
         IN  IF IsListed(releases, package_info.version)
             THEN SourceFile(FilesOfVersion(releases, package_info.version))
             ELSE IF available_versions = <<>> THEN NoInfo
             ELSE SourceFile(available_versions[1][2])

\* what the download request of download_package_file meets: status 200 and
\* the whole body, another status, an exception of requests.get, an exception
\* while the body is written
DownloadOutcomes == {"ok", "http_error", "request_error", "stream_error"}

\* download_package_file: <<its return value, download_dir afterwards>>
download_package_file(file_info, dir, outcome) ==
    IF file_info = NoInfo THEN <<FALSE, dir>>
    ELSE IF file_info.filename \in DOMAIN dir THEN <<TRUE, dir>>
    ELSE IF outcome = "ok" THEN <<TRUE, PutFile(dir, file_info.filename, "whole")>>
    ELSE IF outcome = "stream_error"
         THEN <<FALSE, PutFile(dir, file_info.filename, "partial")>>
    ELSE <<FALSE, dir>>

\* Lines 198-220 and 247-265: one package is tried; <<downloaded, download_dir>>
Attempt(resp, dir, outcome) ==
    LET package_info == get_package_info_from_mirror(resp)
    IN  IF package_info = NoInfo THEN <<FALSE, dir>>
        ELSE LET file_info == find_source_distribution(package_info)
             IN  IF file_info = NoInfo THEN <<FALSE, dir>>
                 ELSE download_package_file(file_info, dir, outcome)

\* main() found no package in the CSV file (lines 289-291)
RetryNoPackages ==
    /\ rpc = "first"
    /\ packages = <<>>
    /\ rpc' = "done"
    /\ UNCHANGED <<passVars, probeVars, packages, max_retries, download_dir, successful,
                   failed, all_retry_successful, all_retry_failed, retry_successful,
                   still_failed, retry, cursor>>

\* download_packages_direct, one turn of its loop (lines 195-223)
FirstAttempt ==
    /\ rpc = "first"
    /\ cursor <= Len(packages)
    /\ \E resp \in MirrorAnswers(packages[cursor]), outcome \in DownloadOutcomes :
          LET got == Attempt(resp, download_dir, outcome)
          IN  /\ download_dir' = got[2]
              /\ successful' = IF got[1] THEN Append(successful, packages[cursor])
                               ELSE successful
              /\ failed' = IF got[1] THEN failed ELSE Append(failed, packages[cursor])
    /\ cursor' = cursor + 1
    /\ UNCHANGED <<passVars, probeVars, packages, max_retries, all_retry_successful,
                   all_retry_failed, retry_successful, still_failed, retry, rpc>>

\* download_packages_direct returns (line 225)
FirstReturn ==
    /\ rpc = "first"
    /\ packages # <<>>
    /\ cursor > Len(packages)
    /\ rpc' = "main"
    /\ UNCHANGED <<passVars, probeVars, packages, max_retries, download_dir, successful,
                   failed, all_retry_successful, all_retry_failed, retry_successful,
                   still_failed, retry, cursor>>

\* main() has nothing to retry (line 303)
SkipRetry ==
    /\ rpc = "main"
    /\ failed = <<>>
    /\ rpc' = "done"
    /\ UNCHANGED <<passVars, probeVars, packages, max_retries, download_dir, successful,
                   failed, all_retry_successful, all_retry_failed, retry_successful,
                   still_failed, retry, cursor>>

\* retry_failed_downloads is called on the failed list (lines 229-242): the
\* first round begins, unless range(max_retries) is empty
CallRetry ==
    /\ rpc = "main"
    /\ failed # <<>>
    /\ all_retry_successful' = <<>>
    /\ all_retry_failed' = failed
    /\ retry' = 0
    /\ retry_successful' = <<>>
    /\ still_failed' = <<>>
    /\ cursor' = 1
    /\ rpc' = IF max_retries > 0 THEN "retry" ELSE "returned"
    /\ UNCHANGED <<passVars, probeVars, packages, max_retries, download_dir, successful,
                   failed>>

Extended_replaced(list, more) == more

\* list.extend(more) (lines 269 and 305)
Extended(list, more) == list \o more

RetryList_initial == failed

RetryList_all == packages

\* Line 244: the list a round goes through
RetryList == all_retry_failed

\* one turn of the loop of a round (lines 244-267)
RetryAttempt ==
    /\ rpc = "retry"
    /\ cursor <= Len(RetryList)
    /\ \E resp \in MirrorAnswers(RetryList[cursor]), outcome \in DownloadOutcomes :
          LET got == Attempt(resp, download_dir, outcome)
          IN  /\ download_dir' = got[2]
              /\ retry_successful' = IF got[1] THEN Append(retry_successful, RetryList[cursor])
                                     ELSE retry_successful
              /\ still_failed' = IF got[1] THEN still_failed
                                 ELSE Append(still_failed, RetryList[cursor])
    /\ cursor' = cursor + 1
    /\ UNCHANGED <<passVars, probeVars, packages, max_retries, successful, failed,
                   all_retry_successful, all_retry_failed, retry, rpc>>

LoopBreaks_emptyOnly(list, round, rounds) == list = <<>>

LoopBreaks_lastOnly(list, round, rounds) == round = rounds - 1

\* Line 272: the test that ends the loop of rounds
LoopBreaks(list, round, rounds) == list = <<>> \/ round = rounds - 1

\* the end of a round (lines 269-273)
EndRound ==
    /\ rpc = "retry"
    /\ cursor > Len(RetryList)
    /\ all_retry_successful' = Extended(all_retry_successful, retry_successful)
    /\ all_retry_failed' = still_failed
    /\ rpc' = IF LoopBreaks(still_failed, retry, max_retries) THEN "returned" ELSE "sleep"
    /\ UNCHANGED <<passVars, probeVars, packages, max_retries, download_dir, successful,
                   failed, retry_successful, still_failed, retry, cursor>>

\* the wait after a round (lines 275-276), then the for statement of line 238:
\* the next round begins if range(max_retries) has a next value, else the loop
\* is over and the function returns
Cooldown ==
    /\ rpc = "sleep"
    /\ IF retry + 1 < max_retries
       THEN /\ retry' = retry + 1
            /\ retry_successful' = <<>>
            /\ still_failed' = <<>>
            /\ cursor' = 1
            /\ rpc' = "retry"
       ELSE /\ rpc' = "returned"
            /\ UNCHANGED <<retry, retry_successful, still_failed, cursor>>
    /\ UNCHANGED <<passVars, probeVars, packages, max_retries, download_dir, successful,
                   failed, all_retry_successful, all_retry_failed>>

\* retry_failed_downloads returns and main() takes its lists (lines 278, 304-306)
FinishRetry ==
    /\ rpc = "returned"
    /\ successful' = Extended(successful, all_retry_successful)
    /\ failed' = all_retry_failed
    /\ rpc' = "done"
    /\ UNCHANGED <<passVars, probeVars, packages, max_retries, download_dir,
                   all_retry_successful, all_retry_failed, retry_successful, still_failed,
                   retry, cursor>>

RetryNames == {NameA, NameAB}

InitRetry ==
    /\ packages \in SeqUpTo(RetryNames, MaxItems)
    /\ max_retries \in 0..MaxRetries
    /\ download_dir = EmptyDir
    /\ successful = <<>>
    /\ failed = <<>>
    /\ all_retry_successful = <<>>
    /\ all_retry_failed = <<>>
    /\ retry_successful = <<>>
    /\ still_failed = <<>>
    /\ retry = 0
    /\ cursor = 1
    /\ rpc = "first"
    /\ PassIdle
    /\ ProbeIdle

NextRetry ==
    \/ RetryNoPackages
    \/ FirstAttempt
    \/ FirstReturn
    \/ SkipRetry
    \/ CallRetry
    \/ RetryAttempt
    \/ EndRound
    \/ Cooldown
    \/ FinishRetry

SpecRetry == InitRetry /\ [][NextRetry]_vars

---------------------------------------------------------------------------
(* generate_statistics on one result list taken in two orders *)

MaxResults == 3     \* longest result list handed to generate_statistics

\* results download_all_packages can collect: successes of two sizes, a skip
\* and failures
StatResults ==
    { ResultSuccess(NameA, FileName(NameA, "zip"), 1, FileUrl(NameA, "zip", "absolute")),
      ResultSuccess(NameAB, FileName(NameAB, "whl"), 2, FileUrl(NameAB, "whl", "absolute")),
      ResultSkipped(NameA),
      ResultFailed(NameAB, "no_download_url"),
      ResultFailed(NameA, "processing_error") }

\* the list rs in the order the permutation p gives
Reordered(rs, p) == [k \in 1..Len(rs) |-> rs[p[k]]]

\* the orders in which the futures of a list can complete
CompletionOrders(rs) == { Reordered(rs, p) : p \in Permutations(1..Len(rs)) }

InitStats ==
    /\ probe_in \in SeqUpTo(StatResults, MaxResults)
    /\ probe_out = <<>>
    /\ PassIdle
    /\ RetryIdle

\* main() calls generate_statistics on the results of a pass (line 312): here
\* on the list in one completion order, then on the same results in another
ApplyStatistics ==
    /\ Len(probe_out) < 2
    /\ \E rs \in (IF probe_out = <<>> THEN {probe_in} ELSE CompletionOrders(probe_in)) :
          probe_out' = Append(probe_out, [results |-> rs,
                                          statistics |-> generate_statistics(rs)])
    /\ UNCHANGED <<probe_in, passVars, retryVars>>

NextStats == ApplyStatistics

SpecStats == InitStats /\ [][NextStats]_vars

---------------------------------------------------------------------------
(* Properties of one pass *)

\* the number of entries of list that equal x
Count(list, x) == Cardinality({k \in 1..Len(list) : list[k] = x})

PassReturned == phase \in {"returned", "ended"} /\ package_list # <<>>

\* item i has left download_package
Ended(i) == worker[i].pc \in {"done", "collected"}

\* the result the pass records for an ended item
Terminal(i) ==
    IF worker[i].result = Raised
    THEN ResultFailed(package_list[i], "processing_error")
    ELSE worker[i].result

\* C1: when download_all_packages has returned, the result list has exactly one
\* result per entry of package_list: the same length and, name by name, as many
\* results as entries, whatever the workers returned or raised.
C1_OneResultPerEntry ==
    PassReturned =>
        /\ Len(results) = Len(package_list)
        /\ \A n \in PackageNames :
              Count([k \in 1..Len(results) |-> results[k].name], n) = Count(package_list, n)

\* a pass over two entries has returned, one of whose workers raised while the
\* other returned a result that is not a failure
C1_Witness ==
    /\ PassReturned
    /\ Len(package_list) >= 2
    /\ \E i \in Items : worker[i].result = Raised
    /\ \E k \in 1..Len(results) : results[k].status # "failed"

\* item i streamed to the end of a response that declared a length it did not reach
ShortAtEof(i) ==
    /\ worker[i].pc = "stream"
    /\ worker[i].written = Len(TransferOf(i).chunks)
    /\ TransferOf(i).ending = "eof"
    /\ TransferOf(i).declared > 0
    /\ worker[i].downloaded_size # TransferOf(i).declared

\* C3: when the stream of a response that declared a length L > 0 ends with a
\* byte count other than L, the step that follows returns failed /
\* incomplete_download, adds nothing to the downloaded set, and leaves no file
\* at the path the attempt wrote.
C3_ByteAccounting ==
    [][\A i \in Items :
          (phase = "pass" /\ ShortAtEof(i) /\ worker'[i].pc # "stream") =>
              /\ worker'[i].result = ResultFailed(package_list[i], "incomplete_download")
              /\ downloaded_packages' = downloaded_packages
              /\ worker[i].filename \notin DOMAIN files'
              /\ ~worker'[i].linked]_vars

\* a download that stopped one byte short of the declared length has ended
C3_Witness ==
    \E i \in Items :
        /\ phase = "pass"
        /\ Ended(i)
        /\ IsString(package_list[i])
        /\ TransferOf(i) = TransferShortByOne
        /\ worker[i].downloaded_size = TransferShortByOne.declared - 1
        /\ Lower(package_list[i]) \notin downloaded_packages

\* items i and j, of names that differ in more than case, both downloaded a
\* file of the same basename
Collide(i, j) ==
    /\ IsString(package_list[i]) /\ IsString(package_list[j])
    /\ Lower(package_list[i]) # Lower(package_list[j])
    /\ worker[i].result.status = "success"
    /\ worker[j].result.status = "success"
    /\ worker[i].filename = worker[j].filename

\* C4: when two distinct names of a pass resolve to URLs of the same basename,
\* the output directory ends with two distinct files, each holding exactly the
\* body of its own download.
C4_CollisionTwoFiles ==
    PassReturned =>
        \A i, j \in Items :
            Collide(i, j) =>
                \E p, q \in DOMAIN files :
                    /\ p # q
                    /\ files[p] = Body(worker[i].download_url, TransferOf(i))
                    /\ files[q] = Body(worker[j].download_url, TransferOf(j))

\* both endpoints answer 404 for the name of item i
NotFoundEverywhere(i) ==
    /\ IsString(package_list[i])
    /\ registry[package_list[i]].json.kind = "http"
    /\ registry[package_list[i]].json.status = 404
    /\ registry[package_list[i]].simple.kind = "http"
    /\ registry[package_list[i]].simple.status = 404

\* C7: a package for which the metadata endpoint and the file-listing endpoint
\* both answer 404 ends with the result failed / not_found.
C7_NotFoundReason ==
    \A i \in Items :
        (phase = "pass" /\ Ended(i) /\ NotFoundEverywhere(i)
            /\ Lower(package_list[i]) \notin downloaded_packages) =>
            Terminal(i) = ResultFailed(package_list[i], "not_found")

\* What download_package does in that case (lines 178-183): the package ends
\* failed / no_download_url, and the result list of the pass holds that result.
C7_NotFoundIsNoDownloadUrl ==
    /\ \A i \in Items :
          (phase = "pass" /\ Ended(i) /\ NotFoundEverywhere(i)
              /\ Lower(package_list[i]) \notin downloaded_packages) =>
              Terminal(i) = ResultFailed(package_list[i], "no_download_url")
    /\ PassReturned =>
          \A i \in Items :
              (NotFoundEverywhere(i) /\ Lower(package_list[i]) \notin downloaded_packages) =>
                  \E k \in 1..Len(results) :
                      results[k] = ResultFailed(package_list[i], "no_download_url")

\* a pass has returned that held a package both endpoints answered 404 for
C7_Witness ==
    /\ PassReturned
    /\ \E i \in Items :
          /\ NotFoundEverywhere(i)
          /\ worker[i].result = ResultFailed(package_list[i], "no_download_url")

\* the worker of item i ran its transfer to the end, for longer than the deadline
Overdue(i) ==
    /\ IsString(package_list[i])
    /\ worker[i].filename # None
    /\ worker[i].written = Len(TransferOf(i).chunks)
    /\ TransferOf(i).seconds > ItemDeadline

\* C9: an item whose worker runs longer than the per-item deadline is recorded
\* as failed / processing_error.
C9_DeadlineAbandons ==
    \A i \in Items :
        (phase = "pass" /\ worker[i].pc = "collected" /\ Overdue(i)) =>
            Terminal(i) = ResultFailed(package_list[i], "processing_error")

\* item i has made its membership test and has not yet added its name or returned
InWindow(i) == worker[i].pc \in {"resolve", "stream", "add"}

\* C10: no worker makes its membership test or its add while another worker is
\* between its own membership test and its add.
C10_SerializedAccess ==
    [][\A i, j \in Items :
          (i # j /\ phase = "pass" /\ InWindow(i)) =>
              ~(\/ (worker[j].pc = "queued" /\ worker'[j].pc # "queued"
                       /\ IsString(package_list[j]))
                \/ (worker[j].pc = "add" /\ worker'[j].pc = "stat"))]_vars

---------------------------------------------------------------------------
(* Properties of runs on one directory *)

\* the names the manifest of the run before records as success
SavedSuccesses ==
    {manifest.results[k].name :
        k \in {m \in 1..Len(manifest.results) : manifest.results[m].status = "success"}}

\* C2: when a run ended with X as success, the next run over the same input and
\* directory returns no success at all, and X as skipped / already_downloaded.
C2_Idempotent ==
    (run = 2 /\ phase = "returned") =>
        \A x \in SavedSuccesses :
            \A k \in 1..Len(results) :
                /\ results[k].status # "success"
                /\ results[k].name = x => results[k] = ResultSkipped(x)

---------------------------------------------------------------------------
(* The end-to-end scenario *)

\* C8: on an empty directory with input [alpha, beta, gamma], every
\* interleaving ends with statistics total 3, successful 1, failed 2, skipped 0,
\* with alpha's file present and whole, and no file of gamma.
InScenario == package_list = <<Alpha, Beta, Gamma>> /\ registry = ScenarioWorld

C8_Scenario ==
    (InScenario /\ phase = "ended") =>
        /\ manifest.statistics.total = 3
        /\ manifest.statistics.successful = 1
        /\ manifest.statistics.failed = 2
        /\ manifest.statistics.skipped = 0
        /\ manifest.statistics = generate_statistics(results)
        /\ FileName(Alpha, "tgz") \in DOMAIN files
        /\ files[FileName(Alpha, "tgz")]
              = Body(FileUrl(Alpha, "tgz", "absolute"), TransferFull)
        /\ FileName(Gamma, "tgz") \notin DOMAIN files
        /\ \A k \in 1..Len(results) :
              results[k].name = Alpha <=> results[k].status = "success"

\* the scenario has ended on the pool of three workers, gamma's worker having
\* finished before alpha's
C8_Witness ==
    /\ InScenario
    /\ phase = "ended"
    /\ max_workers = DefaultWorkers
    /\ \E k, m \in 1..Len(results) :
          k < m /\ results[k].name = Gamma /\ results[m].name = Alpha

---------------------------------------------------------------------------
(* The structured lookup *)

\* the release files of the latest version in the answer probed; <<>> when the
\* answer carries none
LatestFiles ==
    IF probe_in.kind = "http" /\ probe_in.status = 200 /\ probe_in.doc.kind = "ok"
          /\ probe_in.doc.version \in DOMAIN probe_in.doc.releases
    THEN probe_in.doc.releases[probe_in.doc.version]
    ELSE <<>>

HasType(release_files, type) ==
    \E k \in 1..Len(release_files) : release_files[k].packagetype = type

\* C6: for a release-file list of the latest version that holds an sdist and a
\* bdist_wheel, in any order, get_package_info_from_json returns the URL of an
\* sdist of the list and of no wheel.
C6_SdistBeforeWheel ==
    (probe_out # Pending /\ HasType(LatestFiles, "sdist")
        /\ HasType(LatestFiles, "bdist_wheel")) =>
        /\ \E k \in 1..Len(LatestFiles) :
              LatestFiles[k].packagetype = "sdist" /\ probe_out = LatestFiles[k].url
        /\ \A k \in 1..Len(LatestFiles) :
              LatestFiles[k].packagetype = "bdist_wheel" => probe_out # LatestFiles[k].url

\* the lookup has answered for a list whose first file is a wheel and whose
\* last is an sdist
C6_Witness ==
    /\ Len(LatestFiles) >= 2
    /\ LatestFiles[1].packagetype = "bdist_wheel"
    /\ LatestFiles[Len(LatestFiles)].packagetype = "sdist"
    /\ probe_out = LatestFiles[Len(LatestFiles)].url

---------------------------------------------------------------------------
(* The retry of failed downloads *)

SetOf(list) == {list[k] : k \in 1..Len(list)}

\* retry_failed_downloads is running or has just returned
InRetry == rpc \in {"retry", "sleep", "returned"}

\* C5: in retry_failed_downloads the still-failing list of a round holds only
\* names of the still-failing list of the round before, and the list in hand,
\* the returned one included, holds only names of the list it was called with.
C5_RetryNarrows ==
    [][/\ InRetry => SetOf(all_retry_failed') \subseteq SetOf(all_retry_failed)
       /\ InRetry' => /\ SetOf(all_retry_failed') \subseteq SetOf(failed)
                      /\ SetOf(still_failed') \subseteq SetOf(all_retry_failed')
                            \/ rpc' = "returned"
       /\ (rpc = "returned" /\ rpc' = "done") => SetOf(failed') \subseteq SetOf(failed)]_vars

\* retry_failed_downloads has returned after a second round, with one name
\* still failing of the two it was called with
C5_Witness ==
    /\ rpc = "returned"
    /\ retry >= 1
    /\ Len(failed) = 2
    /\ Len(all_retry_failed) = 1

---------------------------------------------------------------------------
(* Skips *)

\* the output directory holds a release file of the project of the name
OwnFile(name) ==
    \E kind \in {"tgz", "zip", "whl"} : FileName(Project(name), kind) \in DOMAIN files

\* another item of this pass, of the same name up to case, has added the name
FetchedInPass(i) ==
    \E j \in Items \ {i} :
        /\ IsString(package_list[j])
        /\ Lower(package_list[j]) = Lower(package_list[i])
        /\ \/ worker[j].pc = "stat"
           \/ worker[j].result.status = "success"
           \/ worker[j].result = ResultFailed(package_list[j], ErrNoEntry)

\* C11: a requested package is returned as skipped only if an artifact of the
\* package itself is in the output directory or was fetched in this pass; a
\* file of another package, whose name begins with the requested name and a
\* '-', never makes it skipped.
C11_NoFalseSkip ==
    \A i \in Items :
        worker[i].result = ResultSkipped(package_list[i]) =>
            OwnFile(package_list[i]) \/ FetchedInPass(i)

\* C12: when download_package starts on a name whose lower-case form is in the
\* downloaded set, it returns skipped / already_downloaded, writes no file and
\* leaves the set as it is; the skipped call never resolves, requests or
\* writes anything afterwards.
C12_SkipCheck ==
    [][\A i \in Items :
          /\ (/\ phase = "pass" /\ phase' = "pass"
              /\ worker[i].pc = "queued" /\ worker'[i].pc # "queued"
              /\ IsString(package_list[i])
              /\ Lower(package_list[i]) \in downloaded_packages) =>
                 /\ worker'[i] = [worker[i] EXCEPT !.pc = "done",
                                                   !.result = ResultSkipped(package_list[i])]
                 /\ files' = files
                 /\ downloaded_packages' = downloaded_packages
          /\ (phase = "pass" /\ worker[i].result = ResultSkipped(package_list[i])) =>
                 /\ worker'[i].pc \in {"done", "collected"}
                 /\ worker'[i].result = worker[i].result
                 /\ worker'[i].download_url = None
                 /\ worker'[i].written = 0]_vars

\* a pass has returned in which 'A' was skipped after 'a' had been downloaded
C12_Witness ==
    /\ PassReturned
    /\ package_list = <<NameA, NameAUp>>
    /\ worker[1].result.status = "success"
    /\ worker[2].result = ResultSkipped(NameAUp)

---------------------------------------------------------------------------
(* Faults *)

\* no other item of the pass has the name of item i, up to case
OnlyOfItsName(i) ==
    \A j \in Items \ {i} :
        IsString(package_list[j]) => Lower(package_list[j]) # Lower(package_list[i])

\* C13: a fault in the fetch of one package becomes a failed result of that
\* package only: the pass returns a result for every item, and the result of
\* each package is the one its own fetch gives, whatever happens to the others.
C13_FaultIsolation ==
    PassReturned =>
        /\ Len(results) = Len(package_list)
        /\ \A i \in Items :
              IF ~IsString(package_list[i])
              THEN Terminal(i) = ResultFailed(package_list[i], "processing_error")
              ELSE OnlyOfItsName(i) /\ run = 1 =>
                      Terminal(i) = download_package(package_list[i], registry[package_list[i]])

---------------------------------------------------------------------------
(* The lists of process_benign.main *)

\* C14: after the first pass and retry_failed_downloads, whatever max_retries
\* is, every entry of the input is in exactly one of the final successful and
\* failed lists: name by name the two lists hold together as many entries as
\* the input, a name of an input without duplicates is never in both, and
\* len(successful) + len(failed) is the number of input names.
C14_NoDropsAcrossRetries ==
    (rpc = "done" /\ packages # <<>>) =>
        /\ Len(successful) + Len(failed) = Len(packages)
        /\ \A n \in RetryNames :
              Count(successful, n) + Count(failed, n) = Count(packages, n)
        /\ (\A n \in RetryNames : Count(packages, n) <= 1) =>
              SetOf(successful) \cap SetOf(failed) = {}

\* main has its final lists after two retry rounds: one name succeeded in the
\* first pass, one in a retry round
C14_Witness ==
    /\ rpc = "done"
    /\ Len(packages) = 2
    /\ retry = 1
    /\ Len(all_retry_successful) = 1
    /\ Len(successful) = 2
    /\ failed = <<>>

---------------------------------------------------------------------------
(* Files left by a fetch that failed *)

\* load_existing_packages would put a name in the set for the file at path
WouldIndex(dir, path) ==
    path \in DOMAIN dir /\ IsIndexed(path) /\ Truthy(extract_package_name(path))

\* the fetch of item i ends failed on a timeout or a transport error raised
\* while the body was being written
FailsInMidStream(i) ==
    /\ phase = "pass"
    /\ worker[i].pc = "stream"
    /\ worker'[i].pc = "done"
    /\ worker'[i].result \in {ResultFailed(package_list[i], "timeout"),
                              ResultFailed(package_list[i], "network_error")}

\* the file at path holds the whole body of a download
IsWhole(dir, path) ==
    \E n \in DOMAIN registry, w \in Worlds :
        LET url == NormalizeUrl(get_package_download_url(w[n]))
            t == w[n].transfer
        IN  /\ ~HasNoUrl(get_package_download_url(w[n]))
            /\ t.request = "ok" /\ t.ending = "eof"
            /\ ~IsIncomplete(t.declared, ContentSize(Body(url, t)))
            /\ dir[path] = Body(url, t)

\* C15: a half-written artifact is never recorded as present: a fetch that ends
\* failed on a transport error or a timeout in mid-stream leaves no file that
\* load_existing_packages would index, and the index a run loads from the
\* directory comes from whole files only.
C15_NoHalfWrittenIndexed ==
    [][/\ \A i \in Items :
             FailsInMidStream(i) => ~WouldIndex(files', worker[i].filename)
       /\ run' = run + 1 =>
             \A path \in DOMAIN files : WouldIndex(files, path) => IsWhole(files, path)]_vars

---------------------------------------------------------------------------
(* The resolution *)

\* get_package_download_url has returned
Resolved == probe_out.pc \in {"normalize", "request", "no_download_url"}

Asked(endpoint) == \E k \in 1..Len(probe_out.requests) : probe_out.requests[k] = endpoint

\* C16: the fallback scrape is requested if and only if the JSON lookup gave
\* no URL, whatever the cause; when the JSON lookup gives a URL that URL is the
\* result and the JSON request is the only one made; the JSON request always
\* comes first.
C16_StrategyOrdering ==
    Resolved =>
        LET first == get_package_info_from_json(probe_in.json)
        IN  /\ probe_out.requests[1] = "json"
            /\ probe_out.json = first
            /\ Asked("simple") <=> ~Truthy(first)
            /\ Truthy(first) => probe_out.url = first /\ probe_out.requests = <<"json">>
            /\ ~Truthy(first) => probe_out.requests = <<"json", "simple">>
            /\ probe_out.url = get_package_download_url(probe_in)

\* the JSON lookup failed on a transport error and the simple page gave the URL
C16_Witness ==
    /\ Resolved
    /\ probe_in.json = JsonTimeout
    /\ probe_out.requests = <<"json", "simple">>
    /\ Truthy(probe_out.url)

\* the URLs the answers of a site carry
SiteUrls ==
    {FileUrl(NameA, kind, form) : kind \in {"tgz", "zip", "whl", "egg"}, form \in UrlForms}

\* C17: whatever the two endpoints answer (404, another error status, a
\* transport failure or timeout, a malformed or incomplete document), the two
\* lookups and get_package_download_url return a URL or None and no exception
\* reaches download_package.
C17_ResolutionNeverRaises ==
    /\ probe_out.pc # "raised"
    /\ probe_out.json # Pending => probe_out.json \in SiteUrls \cup {None}
    /\ probe_out.url # Pending => probe_out.url \in SiteUrls \cup {None}

\* both lookups failed inside, on a document without info.version and on a
\* transport error, and the resolution returned None
C17_Witness ==
    /\ probe_in.json = JsonNoInfo
    /\ probe_in.simple = SimpleError
    /\ probe_out.pc = "no_download_url"
    /\ probe_out.url = None

\* the positions of the anchors the scrape extracts that end in one of the suffixes
LinksEnding(suffixes) ==
    {k \in 1..Len(probe_in.simple.hrefs) :
        /\ IsArchiveLink(probe_in.simple.hrefs[k])
        /\ \E e \in suffixes : EndsWith(probe_in.simple.hrefs[k], e)}

Least(S) == CHOOSE k \in S : \A m \in S : k <= m

\* the simple page was asked and answered with a page
Scraped == Resolved /\ Asked("simple") /\ probe_in.simple.kind = "http"
              /\ probe_in.simple.status = 200

\* C19: the fallback scrape returns the first extracted link ending in .tar.gz
\* or .zip if there is one, otherwise the first ending in .whl, otherwise
\* none; never a .whl link while a source link is on the page.
C19_FallbackPrecedence ==
    Scraped =>
        /\ probe_out.url =
              IF LinksEnding({ExtTarGz, ExtZip}) # {}
              THEN probe_in.simple.hrefs[Least(LinksEnding({ExtTarGz, ExtZip}))]
              ELSE IF LinksEnding({ExtWhl}) # {}
              THEN probe_in.simple.hrefs[Least(LinksEnding({ExtWhl}))]
              ELSE None
        /\ LinksEnding({ExtTarGz, ExtZip}) # {} => ~EndsWith(probe_out.url, ExtWhl)

\* a page listing a wheel before a source archive gave the source archive
C19_Witness ==
    /\ Scraped
    /\ Len(probe_in.simple.hrefs) >= 2
    /\ EndsWith(probe_in.simple.hrefs[1], ExtWhl)
    /\ EndsWith(probe_out.url, ExtZip)

IsAbsolute(url) ==
    StartsWith(url, <<"http:", "/", "/">>) \/ StartsWith(url, <<"https:", "/", "/">>)

IsSchemeRelative(url) == StartsWith(url, <<"/", "/">>)

IsRootRelative(url) == StartsWith(url, <<"/">>) /\ ~IsSchemeRelative(url)

RegistryHosts == {<<"pypi.org">>, <<"files.pythonhosted.org">>}

\* C20: the URL handed to the download request is absolute; a scheme-relative
\* URL //host/path becomes https://host/path, a root-relative URL /path gets a
\* registry host in front, and an absolute URL is left as it is.
C20_UrlNormalization ==
    probe_out.pc = "request" =>
        /\ IsAbsolute(probe_out.download_url)
        /\ IsSchemeRelative(probe_out.url) =>
              probe_out.download_url = <<"https:">> \o probe_out.url
        /\ IsRootRelative(probe_out.url) =>
              \E host \in RegistryHosts :
                  probe_out.download_url = <<"https:", "/", "/">> \o host \o probe_out.url
        /\ IsAbsolute(probe_out.url) => probe_out.download_url = probe_out.url

---------------------------------------------------------------------------
(* The choice of the structured lookup *)

\* the positions of the files of a type in the release files of the latest version
FilesOfType(type) == {k \in 1..Len(LatestFiles) : LatestFiles[k].packagetype = type}

\* C18: the structured lookup returns the URL of the first-listed sdist if
\* there is an sdist, otherwise of the first-listed bdist_wheel if there is
\* one, otherwise none (an empty list, a latest version absent from releases,
\* files of other types only).
C18_FirstListedByType ==
    probe_out # Pending =>
        probe_out =
            IF FilesOfType("sdist") # {}
            THEN LatestFiles[Least(FilesOfType("sdist"))].url
            ELSE IF FilesOfType("bdist_wheel") # {}
            THEN LatestFiles[Least(FilesOfType("bdist_wheel"))].url
            ELSE None

\* the lookup has answered for a list of a wheel and two source archives, with
\* the first-listed of the two
C18_Witness ==
    /\ Len(LatestFiles) = 3
    /\ LatestFiles[1].packagetype = "bdist_wheel"
    /\ LatestFiles[2].packagetype = "sdist"
    /\ LatestFiles[3].packagetype = "sdist"
    /\ LatestFiles[2].url # LatestFiles[3].url
    /\ probe_out = LatestFiles[2].url

---------------------------------------------------------------------------
(* Errors of the download request and of the stream *)

\* the call of item i has a URL and is at its download request
AtRequest(i) ==
    /\ phase = "pass"
    /\ worker[i].pc = "resolve"
    /\ ~HasNoUrl(get_package_download_url(registry[package_list[i]]))

\* the step ends the call of item i
Returns(i) == worker[i].pc # "done" /\ worker'[i].pc = "done"

\* C21: in download_package a timeout of the download request or of the stream
\* gives failed / timeout, any other transport or HTTP-status error gives
\* failed / network_error, and in both cases the call adds nothing to the
\* downloaded set.
C21_ErrorMapping ==
    [][\A i \in Items :
          /\ (AtRequest(i) /\ Returns(i)) =>
                /\ TransferOf(i).request # "ok"
                /\ worker'[i].result =
                      ResultFailed(package_list[i],
                          IF TransferOf(i).request = "timeout" THEN "timeout"
                          ELSE "network_error")
                /\ downloaded_packages' = downloaded_packages
          /\ (phase = "pass" /\ worker[i].pc = "stream" /\ Returns(i)
                /\ TransferOf(i).ending # "eof") =>
                /\ worker'[i].result =
                      ResultFailed(package_list[i],
                          IF TransferOf(i).ending = "timeout" THEN "timeout"
                          ELSE "network_error")
                /\ downloaded_packages' = downloaded_packages]_vars

\* a pass has returned with a request that timed out and a request that met
\* an HTTP error status
C21_Witness ==
    /\ PassReturned
    /\ package_list = <<NameA, NameAUp>>
    /\ TransferOf(1) = TransferRequestTimeout
    /\ TransferOf(2) = TransferHttpError
    /\ worker[1].result = ResultFailed(NameA, "timeout")
    /\ worker[2].result = ResultFailed(NameAUp, "network_error")
    /\ downloaded_packages = {}

---------------------------------------------------------------------------
(* The vocabulary of results, and the set on each outcome *)

Statuses == {"success", "skipped", "failed"}

FailedReasons ==
    {"not_found", "no_download_url", "network_error", "timeout", "incomplete_download",
     "processing_error"}

\* C22: every result of a pass has a status among success, skipped and failed;
\* every failed result has a reason among not_found, no_download_url,
\* network_error, timeout, incomplete_download and processing_error, and every
\* skipped result has the reason already_downloaded; so have the results of
\* the catch-all exception handler.
C22_ClosedVocabulary ==
    \A k \in 1..Len(results) :
        /\ results[k].status \in Statuses
        /\ results[k].status = "failed" => results[k].reason \in FailedReasons
        /\ results[k].status = "skipped" => results[k].reason = "already_downloaded"

\* C23: download_package adds the lower-case name to the downloaded set exactly
\* when it returns success: a call that returns failed or skipped has added
\* nothing, a call that returns success has added its name, and a success
\* result carries filename, size and url.
C23_AddedIffSuccess ==
    [][\A i \in Items :
          (phase = "pass" /\ Returns(i) /\ IsString(package_list[i])) =>
              /\ worker'[i].result.status = "success" <=> worker[i].pc = "stat"
              /\ worker'[i].result.status = "success" =>
                    /\ Lower(package_list[i]) \in downloaded_packages'
                    /\ {"filename", "size", "url"} \subseteq DOMAIN worker'[i].result
              /\ worker[i].pc # "stat" => downloaded_packages' = downloaded_packages]_vars

---------------------------------------------------------------------------
(* The downloaded set of one downloader *)

---------------------------------------------------------------------------
(* The index built at startup *)

\* the three archive suffixes of the index
ArchiveSuffixes == {ExtTarGz, ExtZip, ExtWhl}

\* the key of a file name that ends in ext: the suffix stripped, the rest cut
\* at the first '-', in lower case
KeyOf(path, ext) == Lower(FirstPart(SubSeq(path, 1, Len(path) - Len(ext)), "-"))

\* the keys of the files of a directory that end in one of the three suffixes
KeysOfArchives(dir) ==
    { KeyOf(path, ext) :
        <<path, ext>> \in { pe \in dir \X ArchiveSuffixes : EndsWith(pe[1], pe[2]) } }

\* C25: when a downloader has been constructed, the downloaded set holds the
\* key of every file of the output directory whose name ends in .tar.gz, .zip
\* or .whl, and nothing else.
C25_IndexConstruction ==
    phase = "start" => downloaded_packages = KeysOfArchives(DOMAIN files)

\* a downloader constructed on a directory that holds a .tar.gz file of an
\* earlier run, whose key is not in the set
C25_Counterexample ==
    ~ ( /\ phase = "start"
        /\ \E path \in DOMAIN files :
              /\ EndsWith(path, ExtTarGz)
              /\ KeyOf(path, ExtTarGz) \notin downloaded_packages )

---------------------------------------------------------------------------
(* The pool of workers *)

\* C26: at every moment of a pass, at most max_workers calls of
\* download_package are executing at the same time.
C26_BoundedConcurrency ==
    phase = "pass" => NumRunning <= max_workers

\* a pool of one worker with more items than workers: one call is executing
\* while another item waits in the queue
C26_Witness ==
    /\ phase = "pass"
    /\ max_workers = 1
    /\ Len(package_list) > max_workers
    /\ NumRunning = max_workers
    /\ \E i \in Items : worker[i].pc = "queued"

---------------------------------------------------------------------------
(* What a retry round attempts *)

\* a step in which a retry round tries one package
IsRetryAttempt == rpc = "retry" /\ cursor' = cursor + 1

\* the package tried in that step: the one the step files as retried with
\* success or as still failing
Attempted ==
    IF Len(retry_successful') > Len(retry_successful)
    THEN retry_successful'[Len(retry_successful')]
    ELSE still_failed'[Len(still_failed')]

\* C27: a retry round attempts exactly the entries that failed in the round
\* before (in the first pass, for the first round), each once and in order.  An
\* entry that succeeded in the first pass or in an earlier round is not
\* attempted again (for a list without duplicates: no name that succeeded is
\* attempted again), and nothing outside the list of the first failures is
\* attempted.
C27_RetrySubmissionSet ==
    [][/\ (rpc = "main" /\ rpc' = "retry") => all_retry_failed' = failed
       /\ IsRetryAttempt =>
            /\ cursor <= Len(all_retry_failed)
            /\ Attempted = all_retry_failed[cursor]
            /\ Len(retry_successful') + Len(still_failed') = cursor
            /\ Attempted \in SetOf(failed)
            /\ Count(all_retry_successful, Attempted) + Count(all_retry_failed, Attempted)
                 = Count(failed, Attempted)
            /\ (\A n \in RetryNames : Count(packages, n) <= 1) =>
                  Attempted \notin SetOf(successful) \cup SetOf(all_retry_successful)
       /\ (rpc = "retry" /\ rpc' # "retry") =>
            /\ Len(retry_successful) + Len(still_failed) = Len(all_retry_failed)
            /\ all_retry_failed' = still_failed]_vars

\* the second round, after a first round in which one of two failed packages
\* succeeded: the round has tried the one that was still failing, and only it
C27_Witness ==
    /\ rpc = "retry"
    /\ retry = 1
    /\ Len(failed) = 2
    /\ Len(all_retry_successful) = 1
    /\ Len(all_retry_failed) = 1
    /\ cursor = 2

---------------------------------------------------------------------------
(* The rounds of retry_failed_downloads *)

\* a step that ends a round of retry_failed_downloads
RoundEnds == rpc = "retry" /\ rpc' # "retry"

\* C28: after a round, retry_failed_downloads sleeps its cooldown if and only
\* if something is still failing after that round and the round is not the
\* last one; the cooldown happens nowhere else, and a cooldown is always
\* followed by another round.
C28_CooldownPlacement ==
    [][/\ RoundEnds =>
            (rpc' = "sleep" <=> (all_retry_failed' # <<>> /\ retry + 1 < max_retries))
       /\ (rpc' = "sleep" /\ rpc # "sleep") => RoundEnds
       /\ rpc = "sleep" => (rpc' = "retry" /\ retry' = retry + 1)]_vars

\* the cooldown after a first round that left one of two packages failing,
\* with a second round to come
C28_Witness ==
    /\ rpc = "sleep"
    /\ retry = 0
    /\ max_retries = 2
    /\ Len(failed) = 2
    /\ Len(all_retry_failed) = 1

\* C29: retry_failed_downloads runs at most max_retries rounds and returns.
\* A round tries no more entries of a name than the first failed list holds,
\* so an entry is tried at most max_retries times.  The loop stops at the first
\* round that leaves nothing failing, and what the last round leaves failing
\* is the failed list main ends with.
C29_BoundedRetry ==
    [][/\ rpc' \in {"retry", "sleep"} => retry' + 1 <= max_retries
       /\ rpc' = "retry" =>
            /\ cursor' - 1 <= Len(all_retry_failed')
            /\ \A n \in RetryNames :
                 Count(retry_successful', n) + Count(still_failed', n) <= Count(failed', n)
       /\ (RoundEnds /\ still_failed = <<>>) => rpc' = "returned"
       /\ (RoundEnds /\ retry + 1 = max_retries) =>
            (rpc' = "returned" /\ all_retry_failed' = still_failed)
       /\ (rpc = "returned" /\ rpc' = "done") => failed' = all_retry_failed]_vars

\* main has taken the lists of a retry that ran its two rounds and still has
\* a package failing
C29_Witness ==
    /\ rpc = "done"
    /\ max_retries = 2
    /\ retry = 1
    /\ cursor > 1
    /\ failed # <<>>
    /\ failed = still_failed

---------------------------------------------------------------------------
(* Statistics *)

\* C30: generate_statistics gives the same statistics (the counts by status,
\* the total size, the success rate and the average size) for the results of
\* a pass whatever the order in which they were collected.
C30_StatisticsOrderIndependent ==
    Len(probe_out) = 2 => probe_out[2].statistics = probe_out[1].statistics

\* statistics taken on three results, two of them successes of different
\* sizes, and taken again with the results in another order
C30_Witness ==
    /\ Len(probe_out) = 2
    /\ Len(probe_in) = 3
    /\ probe_out[2].results # probe_out[1].results
    /\ probe_out[1].statistics.successful = 2
    /\ probe_out[1].statistics.total_size = 3
    /\ probe_out[1].results[1].status # "success"

---------------------------------------------------------------------------
(* The statistics of a run *)

\* C31: the statistics main() takes from the results of a pass count every
\* input name once: successful + skipped + failed = total = the number of
\* names given, and no rate divides by zero.  On the empty list
\* generate_statistics gives the success rate 0 and the average size 0.
C31_StatisticsPartition ==
    /\ (phase = "ended" /\ package_list # <<>>) =>
          LET stats == manifest.statistics
          IN  /\ stats.successful + stats.skipped + stats.failed = stats.total
              /\ stats.total = Len(package_list)
              /\ stats.success_rate[2] # 0
              /\ stats.average_size[2] # 0
    /\ LET none == generate_statistics(<<>>)
       IN  /\ none.total = 0
           /\ none.successful + none.skipped + none.failed = 0
           /\ none.success_rate[1] = 0 /\ none.success_rate[2] # 0
           /\ none.average_size[1] = 0 /\ none.average_size[2] # 0

\* a run of two names has ended with one success and one failure, none
\* skipped
C31_Witness ==
    /\ phase = "ended"
    /\ Len(package_list) = 2
    /\ manifest.statistics.successful = 1
    /\ manifest.statistics.failed = 1
    /\ manifest.statistics.skipped = 0

---------------------------------------------------------------------------
(* The list of failed names in the output directory *)

\* the names whose result in this run is failed
FailedInRun == { results[k].name : k \in { j \in 1..Len(results) : results[j].status = "failed" } }

\* C32: when a run has ended, failed_packages.txt in the output directory
\* names exactly the packages whose result in this run is failed; after a run
\* without a failure it names no package.
C32_FailedNamesList ==
    (phase = "ended" /\ package_list # <<>>) => SetOf(failed_file) = FailedInRun

\* a second run on the directory has ended without a failure and the list of
\* the first run is still there
C32_Counterexample ==
    ~ ( /\ run = 2
        /\ phase = "ended"
        /\ package_list # <<>>
        /\ FailedInRun = {}
        /\ failed_file # <<>> )

---------------------------------------------------------------------------
(* The start of main() *)

\* the output directory cannot be created, or famous.csv is missing or cannot
\* be read
Fatal == ~probe_in.output_dir_ok \/ probe_in.csv_file.state # "readable"

\* C33: when the CSV file is missing or unreadable, or the output directory
\* cannot be created, main() ends before anything is dispatched: no package is
\* submitted to the pool, no worker makes a request, no file is fetched and
\* download_results.json is not written.
C33_FatalBeforeDispatch ==
    Fatal =>
        /\ phase \in {"main", "load", "start", "crashed", "ended"}
        /\ worker = <<>>
        /\ results = <<>>
        /\ files = EmptyDir
        /\ manifest = NoManifest
        /\ failed_file = NoFailedFile

\* main() has returned at line 376 on a CSV file that raised after a row with
\* a name had been read
C33_Witness ==
    /\ phase = "ended"
    /\ probe_in.output_dir_ok
    /\ probe_in.csv_file.state = "unreadable"
    /\ \E k \in 1..Len(probe_in.csv_file.rows) : probe_in.csv_file.rows[k] = <<NameA>>
    /\ package_list = <<>>
    /\ worker = <<>>

---------------------------------------------------------------------------
(* The package list read from the CSV file *)

\* the first field of a row without the blanks around it
Stripped(row) ==
    LET field == row[1]
        inner == { k \in 1..Len(field) : field[k] # Space }
    IN  IF inner = {} THEN <<>>
        ELSE SubSeq(field, CHOOSE k \in inner : \A j \in inner : k <= j,
                           CHOOSE k \in inner : \A j \in inner : j <= k)

\* the rows that name a package: not blank, and the stripped first field is
\* not empty and does not begin with '#'
NamingRows(rows) ==
    { k \in 1..Len(rows) :
        /\ rows[k] # <<>>
        /\ Stripped(rows[k]) # <<>>
        /\ Head(Stripped(rows[k])) # "#" }

\* C34: the list load_package_list_from_csv returns holds, in the order of the
\* file, the stripped first field of every row that names a package: one
\* entry for each such row, repeated names included, and nothing for a blank
\* row or a comment row.
C34_InputLoading ==
    (phase \in {"start", "pass", "returned", "ended"}
        /\ probe_in.csv_file.state = "readable") =>
        LET rows == probe_in.csv_file.rows
        IN  /\ Len(package_list) = Cardinality(NamingRows(rows))
            /\ \A k \in NamingRows(rows) :
                 package_list[Cardinality({j \in NamingRows(rows) : j <= k})]
                    = Stripped(rows[k])

\* a file of two rows, a padded name with a second field and a comment: the
\* list read is the one stripped name
C34_Witness ==
    /\ phase = "start"
    /\ probe_in.csv_file.state = "readable"
    /\ Len(probe_in.csv_file.rows) = 2
    /\ probe_in.csv_file.rows[1] = << <<Space>> \o NameAB \o <<Space>>, <<"x">> >>
    /\ probe_in.csv_file.rows[2] = << <<"#", "c">> >>
    /\ package_list = <<NameAB>>

---------------------------------------------------------------------------
(* Progress lines *)

\* the completions at which a progress line has been logged
Logged == { progress[k].completed : k \in 1..Len(progress) }

\* C35: download_all_packages logs a progress line at every 50th completion
\* and at the last completion of the pass, whatever the outcome of the item
\* that completes, a raising future included.
C35_ProgressSnapshots ==
    (phase \in {"pass", "returned", "ended"}) =>
        \A n \in 1..Len(results) :
            (n % ProgressEvery = 0 \/ n = Len(package_list)) => n \in Logged

\* the pass has returned and the last item to complete was one whose future
\* raised: it is recorded as processing_error and no progress line was logged
\* for the last completion
C35_Counterexample ==
    ~ ( /\ phase = "returned"
        /\ Len(results) = Len(package_list)
        /\ results # <<>>
        /\ results[Len(results)].status = "failed"
        /\ results[Len(results)].reason = "processing_error"
        /\ Len(package_list) \notin Logged )

---------------------------------------------------------------------------
(* One name given twice *)

\* items i and j give the same name, up to case
SameName(i, j) ==
    /\ i # j
    /\ IsString(package_list[i]) /\ IsString(package_list[j])
    /\ Lower(package_list[i]) = Lower(package_list[j])

\* C36: when the list gives a name twice, or in two spellings that differ in
\* case only, at most one of the two items downloads and ends as success; the
\* other ends skipped or failed.
C36_OneDownloadPerName ==
    \A i, j \in Items :
        (phase = "pass" /\ SameName(i, j) /\ Ended(i) /\ Ended(j)) =>
            ~(Terminal(i).status = "success" /\ Terminal(j).status = "success")

\* 'a' and 'A' in one pass of two workers: both have written the file and
\* both ended as success
C36_Counterexample ==
    ~ ( /\ phase = "returned"
        /\ max_workers = 2
        /\ package_list = <<NameA, NameAUp>>
        /\ results[1].status = "success"
        /\ results[2].status = "success"
        /\ results[1].filename = results[2].filename )

---------------------------------------------------------------------------
(* Files left in download_dir by an attempt that failed *)

\* the release files of a package, by name
ReleaseFilesOf(name) == { FileName(Project(name), kind) : kind \in {"tgz", "zip", "whl", "egg"} }

\* some attempt has written the whole body of a release file of the package
HasWholeFile(name) ==
    \E path \in ReleaseFilesOf(name) \cap DOMAIN download_dir : download_dir[path] = "whole"

\* C37: in the first pass and in the retry rounds a package is counted as
\* successful only when an attempt wrote the whole body of its file; the file
\* an attempt left behind when it failed in mid-stream does not make a later
\* attempt succeed.
C37_NoPartialPromoted ==
    \A n \in SetOf(successful) \cup SetOf(retry_successful) \cup SetOf(all_retry_successful) :
        HasWholeFile(n)

\* 'a' failed in mid-stream in the first pass, the retry found its file in
\* download_dir and counted it as successful: main ends with 'a' successful
\* and only the half-written file on disk
C37_Counterexample ==
    ~ ( /\ rpc = "done"
        /\ packages = <<NameA>>
        /\ successful = <<NameA>>
        /\ failed = <<>>
        /\ DOMAIN download_dir # {}
        /\ \A path \in DOMAIN download_dir : download_dir[path] = "partial" )

---------------------------------------------------------------------------
(* Termination of a pass *)

\* C38: a pass that has begun returns in the end, and when it returns every
\* item submitted has been collected and has its result in the list; no item
\* stays queued or running for ever.
C38_PassTerminates ==
    (phase = "pass") ~>
        (/\ phase = "returned"
         /\ Len(results) = Len(package_list)
         /\ \A i \in Items : worker[i].pc = "collected")

\* a pass of two items on a pool of one worker has returned: the second item
\* waited in the queue while the first was written in two chunks
C38_Witness ==
    /\ phase = "returned"
    /\ max_workers = 1
    /\ Len(package_list) = 2
    /\ Len(results) = 2
    /\ \E i \in Items : worker[i].written >= 2

===========================================================================
